---- MODULE Spec2Model ----
(***************************************************************************)
(* JSONLab: the host state (document, version history, cursor), the        *)
(* DocumentViewer state (editor text, debounce timer, user-edit flag) and  *)
(* the visual query builder of QueryTool.                                  *)
(*                                                                         *)
(* Text is a sequence of one-character strings, so that serialisation,     *)
(* parsing and query compilation are computed character by character.      *)
(* A JSON value is a record tagged by `type`; an object keeps its          *)
(* properties as an ordered sequence of <<key, value>> pairs (insertion    *)
(* order, as in JavaScript).                                               *)
(***************************************************************************)
EXTENDS Integers, Sequences, FiniteSets, TLC

VARIABLES
    document,             \* App: {raw, parsed, isValid, error}
    highlightPath,        \* App: string | null
    versionHistory,       \* App: VersionHistoryItem[]
    currentVersionIndex,  \* App: number (0-based, -1 when empty)
    rawJson,              \* DocumentViewer: text shown in the editor
    error,                \* DocumentViewer: parse error of the last commit
    debounceTimer,        \* DocumentViewer: pending setTimeout and its closure
    isUserEditRef,        \* DocumentViewer: ref flag
    now,                  \* Date.now()
    lastOp,               \* the handler that ran last
    availableProperties,  \* QueryTool: string[]
    conditions,           \* QueryTool: Condition[]
    logicOperator,        \* QueryTool: 'AND' | 'OR'
    query,                \* QueryTool: the query text
    queryResult,          \* QueryTool: result (QueryResult | null)
    analysis              \* AnalyzeView: shown, analysis, error

vars == <<document, highlightPath, versionHistory, currentVersionIndex,
          rawJson, error, debounceTimer, isUserEditRef, now, lastOp,
          availableProperties, conditions, logicOperator, query, queryResult,
          analysis>>

appVars    == <<document, highlightPath, versionHistory, currentVersionIndex>>
viewerVars == <<rawJson, error, debounceTimer, isUserEditRef, analysis>>
queryVars  == <<availableProperties, conditions, logicOperator, query, queryResult>>

-----------------------------------------------------------------------------
(* Bounds of the model                                                     *)

MaxClock == 5         \* Spec: the clock stops here (MaxClock - 1 versions)
LongRun == 60         \* SpecLong: snapshots taken before undo/redo is exercised
MaxClockLong == 63    \* SpecLong: the clock stops here
MaxConditions == 3    \* conditions in the visual builder
MaxLiteralLen == 2    \* length of the generated condition literals
MaxExecConditions == 1 \* SpecExec: conditions of an executed visual query
MaxItems == 3         \* SpecAnalyze: elements of the generated lists

-----------------------------------------------------------------------------
(* Generic helpers on sequences                                            *)

Range(s) == {s[i] : i \in 1..Len(s)}

Min(a, b) == IF a < b THEN a ELSE b

Max(a, b) == IF a > b THEN a ELSE b

\* Array.prototype.slice(begin, end) for 0 <= begin, end (0-based, end exclusive)
Slice(s, begin, end) ==
    LET b == Min(begin, Len(s))
        e == Min(end, Len(s))
    IN  IF b >= e THEN <<>> ELSE SubSeq(s, b + 1, e)

\* Array.prototype.join, computed over the two halves of the array
RECURSIVE Join(_, _)
Join(parts, sep) ==
    IF parts = <<>> THEN <<>>
    ELSE IF Len(parts) = 1 THEN parts[1]
    ELSE Join(SubSeq(parts, 1, Len(parts) \div 2), sep)
         \o sep
         \o Join(SubSeq(parts, Len(parts) \div 2 + 1, Len(parts)), sep)

-----------------------------------------------------------------------------
(* JSON values                                                             *)

JNull == [type |-> "null"]
JBool(b) == [type |-> "boolean", b |-> b]
JNum(n) == [type |-> "number", n |-> n]
JStr(s) == [type |-> "string", s |-> s]
JArr(items) == [type |-> "array", items |-> items]
JObj(props) == [type |-> "object", props |-> props]

\* JavaScript truthiness of a JsonValue (`document.parsed &&`, `!document.parsed`)
Truthy(v) ==
    CASE v.type = "null" -> FALSE
      [] v.type = "boolean" -> v.b
      [] v.type = "number" -> v.n # 0
      [] v.type = "string" -> v.s # <<>>
      [] OTHER -> TRUE

Digit(d) == <<"0", "1", "2", "3", "4", "5", "6", "7", "8", "9">>[d + 1]

RECURSIVE NatToText(_)
NatToText(n) ==
    IF n < 10 THEN <<Digit(n)>>
    ELSE NatToText(n \div 10) \o <<Digit(n % 10)>>

NumberToText(n) == IF n < 0 THEN <<"-">> \o NatToText(0 - n) ELSE NatToText(n)

\* A JSON string literal; the strings of the model hold no character that
\* JSON.stringify escapes.
Quote(s) == <<"\"">> \o s \o <<"\"">>

\* JSON.stringify(value, null, gap): `indent` is the indentation of the
\* enclosing line, `gap` the text added per level (empty: no line breaks).
RECURSIVE Stringify(_, _, _)
Stringify(v, gap, indent) ==
    LET inner == indent \o gap
        sep == IF gap = <<>> THEN <<",">> ELSE <<",", "\n">> \o inner
        open(b) == IF gap = <<>> THEN <<b>> ELSE <<b, "\n">> \o inner
        close(b) == IF gap = <<>> THEN <<b>> ELSE <<"\n">> \o indent \o <<b>>
        colon == IF gap = <<>> THEN <<":">> ELSE <<":", " ">>
    IN  CASE v.type = "null" -> <<"n", "u", "l", "l">>
          [] v.type = "boolean" ->
                IF v.b THEN <<"t", "r", "u", "e">> ELSE <<"f", "a", "l", "s", "e">>
          [] v.type = "number" -> NumberToText(v.n)
          [] v.type = "string" -> Quote(v.s)
          [] v.type = "array" ->
                IF v.items = <<>> THEN <<"[", "]">>
                ELSE open("[")
                     \o Join([i \in 1..Len(v.items) |->
                                 Stringify(v.items[i], gap, inner)], sep)
                     \o close("]")
          [] v.type = "object" ->
                IF v.props = <<>> THEN <<"{", "}">>
                ELSE open("{")
                     \o Join([i \in 1..Len(v.props) |->
                                 Quote(v.props[i][1]) \o colon
                                 \o Stringify(v.props[i][2], gap, inner)], sep)
                     \o close("}")

TwoSpaces == <<" ", " ">>

\* formatJson(value) = JSON.stringify(value, null, 2)
formatJson(value) == Stringify(value, TwoSpaces, <<>>)

\* JSON.stringify(value): the minified text
Minified(value) == Stringify(value, <<>>, <<>>)

-----------------------------------------------------------------------------
(* The documents and texts of the model                                    *)

DocA == JObj(<< <<(<<"a">>), JNum(1)>> >>)
DocB == JObj(<< <<(<<"a">>), JNum(2)>> >>)

\* The price list of the query examples
PriceList ==
    JArr(<<JObj(<< <<(<<"p", "r", "i", "c", "e">>), JNum(150)>>,
                   <<(<<"n", "a", "m", "e">>), JStr(<<"a">>)>> >>),
           JObj(<< <<(<<"p", "r", "i", "c", "e">>), JNum(50)>>,
                   <<(<<"n", "a", "m", "e">>), JStr(<<"b">>)>> >>)>>)

\* A text that is not JSON
InvalidText == <<"{">>

\* Layouts under which a text is read back as the same value
Layouts == {<<>>, TwoSpaces, <<" ", " ", " ", " ">>, <<"\t">>}

DecimalDigits == {"0", "1", "2", "3", "4", "5", "6", "7", "8", "9"}

StartsWith(text, i, word) ==
    i + Len(word) - 1 <= Len(text) /\ SubSeq(text, i, i + Len(word) - 1) = word

\* The first position at or after i where `word` occurs in text (0: nowhere)
RECURSIVE IndexOf(_, _, _)
IndexOf(text, word, i) ==
    IF i + Len(word) - 1 > Len(text) THEN 0
    ELSE IF SubSeq(text, i, i + Len(word) - 1) = word THEN i
    ELSE IndexOf(text, word, i + 1)

\* text.split(separator)
RECURSIVE Split(_, _)
Split(text, separator) ==
    LET at == IndexOf(text, separator, 1)
    IN  IF at = 0 THEN <<text>>
        ELSE <<SubSeq(text, 1, at - 1)>>
             \o Split(SubSeq(text, at + Len(separator), Len(text)), separator)

RECURSIVE DigitsEnd(_, _)
DigitsEnd(text, i) ==
    IF i <= Len(text) /\ text[i] \in DecimalDigits THEN DigitsEnd(text, i + 1) ELSE i

RECURSIVE TextToNat(_)
TextToNat(digits) ==
    IF digits = <<>> THEN 0
    ELSE 10 * TextToNat(SubSeq(digits, 1, Len(digits) - 1))
         + (CHOOSE d \in 0..9 : Digit(d) = digits[Len(digits)])

\* JSON.parse(text), computed over the characters by a parser that keeps
\* the open arrays and objects on a stack: the JSON grammar for null,
\* booleans, integers, strings without escapes, arrays and objects.
ParseFailure == [ok |-> FALSE, value |-> JNull, next |-> 0]

Parsed(value, next) == [ok |-> TRUE, value |-> value, next |-> next]

RECURSIVE QuoteEnd(_, _)
QuoteEnd(text, i) ==
    IF i > Len(text) THEN 0
    ELSE IF text[i] = "\"" THEN i
    ELSE IF text[i] \in {"\\", "\n", "\t"} THEN 0
    ELSE QuoteEnd(text, i + 1)

ParseString(text, i) ==
    LET close == QuoteEnd(text, i + 1)
    IN  IF close = 0 THEN ParseFailure
        ELSE Parsed(JStr(SubSeq(text, i + 1, close - 1)), close + 1)

\* a number that starts at s: an optional minus sign and decimal digits
\* without a leading zero
ParseNumber(text, s) ==
    LET Digits(from, to) ==
            IF to = from \/ (to - from > 1 /\ text[from] = "0") THEN ParseFailure
            ELSE Parsed(JNum(IF from > s
                             THEN 0 - TextToNat(SubSeq(text, from, to - 1))
                             ELSE TextToNat(SubSeq(text, from, to - 1))), to)
        Sign(from) == Digits(from, DigitsEnd(text, from))
    IN  Sign(IF text[s] = "-" THEN s + 1 ELSE s)

\* One step of the parser at position state.next. `expect` is what the
\* grammar allows there: a value ("value"; "element" after `[`, where `]`
\* is allowed too), a member name ("name"; "member" after `{`, where `}` is
\* allowed too), the colon after a name, the `,` or closing bracket after
\* the value of the innermost open array or object, or nothing but white
\* space after the whole value ("end"). `open` holds the open arrays and
\* objects, the innermost last, each with what was read of it and, for an
\* object, the name of the member being read.
ParseStep(text, state) ==
    LET At(expect, next, open, value) ==
            [expect |-> expect, next |-> next, open |-> open, value |-> value,
             ok |-> TRUE]
        Stopped(ok) ==
            [expect |-> "nothing", next |-> 0, open |-> <<>>,
             value |-> IF ok THEN state.value ELSE JNull, ok |-> ok]
        inner == state.open[Len(state.open)]
        Outer == SubSeq(state.open, 1, Len(state.open) - 1)
        \* a value is complete: it is the whole value or one of `open`
        Complete(value, next, open) ==
            At(IF open = <<>> THEN "end" ELSE "after", next, open, value)
        Scalar(r) == IF r.ok THEN Complete(r.value, r.next, state.open) ELSE Stopped(FALSE)
        Name(r) ==
            IF r.ok
            THEN At("colon", r.next,
                    Append(Outer, [inner EXCEPT !.name = r.value.s]), JNull)
            ELSE Stopped(FALSE)
        Value(c, i) ==
            CASE c = "[" ->
                     At("element", i + 1,
                        Append(state.open, [array |-> TRUE, read |-> <<>>,
                                            name |-> <<>>]), JNull)
              [] c = "{" ->
                     At("member", i + 1,
                        Append(state.open, [array |-> FALSE, read |-> <<>>,
                                            name |-> <<>>]), JNull)
              [] StartsWith(text, i, <<"n", "u", "l", "l">>) ->
                     Complete(JNull, i + 4, state.open)
              [] StartsWith(text, i, <<"t", "r", "u", "e">>) ->
                     Complete(JBool(TRUE), i + 4, state.open)
              [] StartsWith(text, i, <<"f", "a", "l", "s", "e">>) ->
                     Complete(JBool(FALSE), i + 5, state.open)
              [] c = "\"" -> Scalar(ParseString(text, i))
              [] c = "-" \/ c \in DecimalDigits -> Scalar(ParseNumber(text, i))
              [] OTHER -> Stopped(FALSE)
        After(c, i) ==
            CASE inner.array /\ c = "," ->
                     At("value", i + 1,
                        Append(Outer, [inner EXCEPT
                                          !.read = Append(@, state.value)]), JNull)
              [] inner.array /\ c = "]" ->
                     Complete(JArr(Append(inner.read, state.value)), i + 1, Outer)
              [] ~inner.array /\ c = "," ->
                     At("name", i + 1,
                        Append(Outer,
                               [inner EXCEPT
                                   !.read = Append(@, <<inner.name, state.value>>)]),
                        JNull)
              [] ~inner.array /\ c = "}" ->
                     Complete(JObj(Append(inner.read, <<inner.name, state.value>>)),
                              i + 1, Outer)
              [] OTHER -> Stopped(FALSE)
        Char(c, i) ==
            CASE c \in {" ", "\t", "\n", "\r"} ->
                     At(state.expect, i + 1, state.open, state.value)
              [] state.expect = "element" /\ c = "]" ->
                     Complete(JArr(<<>>), i + 1, Outer)
              [] state.expect = "member" /\ c = "}" ->
                     Complete(JObj(<<>>), i + 1, Outer)
              [] state.expect \in {"value", "element"} -> Value(c, i)
              [] state.expect \in {"name", "member"} /\ c = "\"" ->
                     Name(ParseString(text, i))
              [] state.expect = "colon" /\ c = ":" ->
                     At("value", i + 1, state.open, JNull)
              [] state.expect = "after" -> After(c, i)
              [] OTHER -> Stopped(FALSE)
    IN  IF state.next > Len(text) THEN Stopped(state.expect = "end")
        ELSE Char(text[state.next], state.next)

\* At most `count` (at least one) steps of the parser from `state`
RECURSIVE ParseSteps(_, _, _)
ParseSteps(text, state, count) ==
    LET Rest(half) ==
            IF half.expect = "nothing" THEN half
            ELSE ParseSteps(text, half, count - count \div 2)
    IN  IF count = 1 THEN ParseStep(text, state)
        ELSE Rest(ParseSteps(text, state, count \div 2))

\* The steps of the parser from `state` until it stops, in runs of count,
\* 2 * count, ... steps
RECURSIVE ParseToEnd(_, _, _)
ParseToEnd(text, state, count) ==
    LET Rest(run) ==
            IF run.expect = "nothing" THEN run
            ELSE ParseToEnd(text, run, 2 * count)
    IN  Rest(ParseSteps(text, state, count))

\* JSON.parse(text): the value, or a SyntaxError (ok = FALSE); the text is
\* one value and nothing but white space after it
JSONparse(text) ==
    LET Whole(state) == [ok |-> state.ok, value |-> state.value]
    IN  Whole(ParseToEnd(text,
                         [expect |-> "value", next |-> 1, open |-> <<>>,
                          value |-> JNull, ok |-> TRUE],
                         1))

NULL == "null"

\* highlightPath of null; `!highlightPath` treats '' alike
NoPath == <<>>
SyntaxErrorMessage == "Unexpected token"

\* parseJson(jsonString): { success, data?, error? }
parseJson(jsonString) ==
    LET r == JSONparse(jsonString)
    IN  IF r.ok THEN [success |-> TRUE, data |-> r.value, error |-> NULL]
        ELSE [success |-> FALSE, data |-> JNull, error |-> SyntaxErrorMessage]

\* Object.is(old, new) fails: every handler builds a fresh array or object,
\* a primitive is the same value when it is equal.
DataChanged(old, new) == new.type \in {"array", "object"} \/ old # new

-----------------------------------------------------------------------------
(* QueryTool: the visual query builder                                     *)

\* UTF-16 order of the characters that occur in keys and property paths
CodeOrder ==
    <<",", ".", "0", "1", "2", "3", "4", "5", "6", "7", "8", "9",
      "D", "I", "[", "]", "_",
      "a", "b", "c", "d", "e", "f", "g", "h", "i", "j", "k", "l", "m",
      "n", "o", "p", "q", "r", "s", "t", "u", "v", "w", "x", "y", "z">>

CharCode(c) == CHOOSE i \in 1..Len(CodeOrder) : CodeOrder[i] = c

\* a < b as Array.prototype.sort() compares strings
RECURSIVE TextLess(_, _)
TextLess(a, b) ==
    IF a = <<>> THEN b # <<>>
    ELSE IF b = <<>> THEN FALSE
    ELSE IF a[1] = b[1] THEN TextLess(Tail(a), Tail(b))
    ELSE CharCode(a[1]) < CharCode(b[1])

\* Array.from(set).sort()
RECURSIVE SortTexts(_)
SortTexts(set) ==
    IF set = {} THEN <<>>
    ELSE LET least == CHOOSE t \in set : \A u \in set \ {t} : TextLess(t, u)
         IN  <<least>> \o SortTexts(set \ {least})

\* prefix.split('.').length
SplitLength(prefix) == 1 + Cardinality({i \in 1..Len(prefix) : prefix[i] = "."})

\* extractAllProperties(obj, prefix)
RECURSIVE extractAllProperties(_, _)
extractAllProperties(obj, prefix) ==
    IF ~Truthy(obj) \/ obj.type \notin {"array", "object"} THEN <<>>
    ELSE IF obj.type = "array"
    THEN IF obj.items # <<>> /\ obj.items[1].type \in {"null", "array", "object"}
         THEN extractAllProperties(obj.items[1], prefix)
         ELSE <<>>
    ELSE LET fullPath(key) == IF prefix # <<>> THEN prefix \o <<".">> \o key ELSE key
             nested(i) ==
                 LET value == obj.props[i][2]
                 IN  IF value.type = "object" /\ SplitLength(prefix) < 2
                     THEN Range(extractAllProperties(value, fullPath(obj.props[i][1])))
                     ELSE {}
         IN  SortTexts(UNION {{fullPath(obj.props[i][1])} \cup nested(i) :
                                  i \in 1..Len(obj.props)})

Condition(id, property, operator, value) ==
    [id |-> id, property |-> property, operator |-> operator, value |-> value]

\* The <option> values of the operator select
Op ==
    [Eq |-> <<"=", "=">>, Ne |-> <<"!", "=">>, Gt |-> <<">">>,
     Ge |-> <<">", "=">>, Lt |-> <<"<">>, Le |-> <<"<", "=">>,
     Contains |-> <<"c", "o", "n", "t", "a", "i", "n", "s">>,
     Regex |-> <<"=", "~">>]

\* The literals written without quotes
Text ==
    [True |-> <<"t", "r", "u", "e">>, False |-> <<"f", "a", "l", "s", "e">>,
     Null |-> <<"n", "u", "l", "l">>]

\* Number(value) of a string, as far as isNaN tells: the StringNumericLiteral
\* grammar of ECMAScript (white space is trimmed, the empty string is 0).
WhiteSpace == {" ", "\t", "\n"}

RECURSIVE TrimStart(_)
TrimStart(s) == IF s # <<>> /\ s[1] \in WhiteSpace THEN TrimStart(Tail(s)) ELSE s

RECURSIVE TrimEnd(_)
TrimEnd(s) ==
    IF s # <<>> /\ s[Len(s)] \in WhiteSpace THEN TrimEnd(SubSeq(s, 1, Len(s) - 1))
    ELSE s

\* String.prototype.trim
Trim(s) == TrimEnd(TrimStart(s))

AllIn(s, chars) == \A i \in 1..Len(s) : s[i] \in chars

\* !isNaN(Number(value))
IsNumeric(value) ==
    LET HexDigits == DecimalDigits \cup {"a", "b", "c", "d", "e", "f"}
        IsMantissa(m) ==
            \E k \in 0..Len(m) :
                LET int == SubSeq(m, 1, k)
                    rest == SubSeq(m, k + 1, Len(m))
                IN  /\ AllIn(int, DecimalDigits)
                    /\ \/ rest = <<>> /\ int # <<>>
                       \/ /\ rest # <<>>
                          /\ rest[1] = "."
                          /\ AllIn(Tail(rest), DecimalDigits)
                          /\ (int # <<>> \/ Len(rest) > 1)
        IsExponent(e) ==
            \/ e = <<>>
            \/ /\ e[1] \in {"e", "E"}
               /\ LET r == Tail(e)
                      d == IF r # <<>> /\ r[1] \in {"+", "-"} THEN Tail(r) ELSE r
                  IN  d # <<>> /\ AllIn(d, DecimalDigits)
        IsUnsignedDecimal(u) ==
            \/ u = <<"I", "n", "f", "i", "n", "i", "t", "y">>
            \/ \E k \in 1..Len(u) :
                   IsMantissa(SubSeq(u, 1, k)) /\ IsExponent(SubSeq(u, k + 1, Len(u)))
        IsNonDecimalInteger(t) ==
            /\ Len(t) >= 3
            /\ t[1] = "0"
            /\ \/ t[2] \in {"x", "X"} /\ AllIn(SubSeq(t, 3, Len(t)), HexDigits)
               \/ t[2] \in {"o", "O"} /\ AllIn(SubSeq(t, 3, Len(t)), {"0", "1", "2", "3", "4", "5", "6", "7"})
               \/ t[2] \in {"b", "B"} /\ AllIn(SubSeq(t, 3, Len(t)), {"0", "1"})
        t == Trim(value)
        u == IF t # <<>> /\ t[1] \in {"+", "-"} THEN Tail(t) ELSE t
    IN  \/ t = <<>>
        \/ u # <<>> /\ IsUnsignedDecimal(u)
        \/ IsNonDecimalInteger(t)

\* The filter expression of one condition (the callback of conditions.map)
filterExpression(c) ==
    LET formattedValue ==
            IF c.operator = Op.Regex \/ c.operator = Op.Contains THEN Quote(c.value)
            ELSE IF IsNumeric(c.value) THEN c.value
            ELSE IF c.value = Text.True \/ c.value = Text.False \/ c.value = Text.Null
            THEN c.value
            ELSE Quote(c.value)
    IN  IF c.operator = Op.Contains
        THEN <<"@", ".">> \o c.property \o <<" ", "=", "~", " ", "/">> \o c.value
             \o <<"/", "i">>
        ELSE <<"@", ".">> \o c.property \o <<" ">> \o c.operator \o <<" ">>
             \o formattedValue

\* generateJSONPathFromConditions with the join operator of AND throughout
generateJSONPathAlwaysAnd(conds, logic) ==
    IF Len(conds) = 0 THEN <<"$", "[", "*", "]">>
    ELSE <<"$", "[", "?", "(">>
         \o Join([i \in 1..Len(conds) |-> filterExpression(conds[i])],
                 <<" ", "&", "&", " ">>)
         \o <<")", "]">>

\* generateJSONPathFromConditions() for the conditions and logic operator held
generateJSONPathFromConditions(conds, logic) ==
    IF Len(conds) = 0 THEN <<"$", "[", "*", "]">>
    ELSE LET filterExpressions == [i \in 1..Len(conds) |-> filterExpression(conds[i])]
             joinOperator == IF logic = "AND" THEN <<" ", "&", "&", " ">>
                             ELSE <<" ", "|", "|", " ">>
         IN  <<"$", "[", "?", "(">> \o Join(filterExpressions, joinOperator)
             \o <<")", "]">>

\* QueryResult; `shown` tells a result from null
NoResult ==
    [shown |-> FALSE, success |-> FALSE, data |-> <<>>, count |-> 0,
     items |-> <<>>, error |-> NULL]

\* The QueryTool after the App re-rendered with `newData`: it is mounted with
\* the document section, and its effect on [data] refreshes the properties.
QueryToolRender(oldData, newData) ==
    IF ~Truthy(newData) \/ ~Truthy(oldData)
    THEN /\ availableProperties' = extractAllProperties(newData, <<>>)
         /\ conditions' = <<>>
         /\ logicOperator' = "AND"
         /\ query' = <<>>
         /\ queryResult' = NoResult
    ELSE /\ availableProperties' =
                IF DataChanged(oldData, newData)
                THEN extractAllProperties(newData, <<>>) ELSE availableProperties
         /\ UNCHANGED <<conditions, logicOperator, query, queryResult>>

-----------------------------------------------------------------------------
(* AnalyzeView: structural analysis of the editor text                     *)

DeepNestingDepth == 10
LargeArrayLength == 1000
LargeStringLength == 10000
RepeatedKeyCount == 50

Issue(type, severity, path, message, details) ==
    [type |-> type, severity |-> severity, path |-> path,
     message |-> message, details |-> details]

\* typeof value === 'object' && value !== null
IsObjectLike(value) == value.type \in {"array", "object"}

HasKey(object, key) == \E i \in 1..Len(object.props) : object.props[i][1] = key

\* object[key] of an own key
GetProperty(object, key) ==
    object.props[CHOOSE i \in 1..Len(object.props) : object.props[i][1] = key][2]

\* `${value}` of a primitive
TemplateText(value) ==
    CASE value.type = "number" -> NumberToText(value.n)
      [] value.type = "string" -> value.s
      [] value.type = "boolean" -> IF value.b THEN Text.True ELSE Text.False
      [] OTHER -> Text.Null

\* The id field checked for an array: the first of idFields that is `in`
\* its first element (none: the empty text)
CheckedIdField(array) ==
    LET idFields ==
            <<(<<"i", "d">>), (<<"_", "i", "d">>), (<<"I", "D">>),
              (<<"u", "u", "i", "d">>), (<<"k", "e", "y">>)>>
        first == array.items[1]
        present == {k \in 1..Len(idFields) :
                       first.type = "object" /\ HasKey(first, idFields[k])}
    IN  IF present = {} THEN <<>>
        ELSE idFields[CHOOSE k \in present : \A m \in present : k <= m]

\* The Duplicate IDs issue of an array whose first item is an object or an
\* array. item[idField] is undefined (here: absent) for a primitive, an array
\* or an object without the key; ids.has(id) is SameValueZero, so an array
\* or object equals only itself.
DuplicateIssues(array, path) ==
    LET idField == CheckedIdField(array)
        ItemId(item) ==
            IF item.type = "object" /\ HasKey(item, idField)
            THEN [present |-> TRUE, id |-> GetProperty(item, idField)]
            ELSE [present |-> FALSE, id |-> JNull]
        SameId(a, b) == ~IsObjectLike(a) /\ a = b
        Counts(idx) ==
            LET this == ItemId(array.items[idx])
            IN  /\ this.present
                /\ this.id.type # "null"
                /\ \E e \in 1..(idx - 1) :
                       LET earlier == ItemId(array.items[e])
                       IN  earlier.present /\ SameId(earlier.id, this.id)
        hits == IF idField = <<>> THEN <<>>
                ELSE SelectSeq([i \in 1..Len(array.items) |-> i], Counts)
        \* the `duplicates` collected by the forEach over the array
        duplicates ==
            [k \in 1..Len(hits) |->
                [id |-> ItemId(array.items[hits[k]]).id, index |-> hits[k] - 1]]
        shown == Slice([k \in 1..Len(duplicates) |->
                           TemplateText(duplicates[k].id) \o <<" (index ">>
                           \o NatToText(duplicates[k].index) \o <<")">>], 0, 3)
    IN  IF duplicates = <<>> THEN <<>>
        ELSE <<Issue("Duplicate IDs", "error",
                     path \o <<"[", "*", "]", ".">> \o idField,
                     <<"Found ">> \o NatToText(Len(duplicates)) \o <<" duplicate ">>
                         \o idField \o <<" value(s)">>,
                     <<"Duplicates: ">> \o Join(shown, <<", ">>)
                         \o (IF Len(duplicates) > 3 THEN <<"...">> ELSE <<>>))>>

InconsistentIssues(array, path) ==
    LET \* Object.keys(value): the keys of an object, the indices of an array
        ObjectKeys(value) ==
            IF value.type = "array"
            THEN [i \in 1..Len(value.items) |-> NatToText(i - 1)]
            ELSE [i \in 1..Len(value.props) |-> value.props[i][1]]
        \* keys.sort().join(',')
        SortedKeysText(value) == Join(SortTexts(Range(ObjectKeys(value))), <<",">>)
        firstKeys == SortedKeysText(array.items[1])
        Differs(idx) ==
            /\ IsObjectLike(array.items[idx])
            /\ SortedKeysText(array.items[idx]) # firstKeys
        hits == SelectSeq([i \in 1..Len(array.items) |-> i], Differs)
    IN  [k \in 1..Len(hits) |->
            Issue("Inconsistent Structure", "warning",
                  path \o <<"[">> \o NatToText(hits[k] - 1) \o <<"]">>,
                  <<"Object has different keys than first item">>,
                  <<"Expected: ">>
                      \o Join(Slice(Split(firstKeys, <<",">>), 0, 5), <<", ">>)
                      \o <<"...">>)]

RECURSIVE Flatten(_)
Flatten(seqs) ==
    IF seqs = <<>> THEN <<>>
    ELSE IF Len(seqs) = 1 THEN seqs[1]
    ELSE Flatten(SubSeq(seqs, 1, Len(seqs) \div 2))
         \o Flatten(SubSeq(seqs, Len(seqs) \div 2 + 1, Len(seqs)))

\* The issues pushed by traverse(obj, path, depth), in the order of the pushes
RECURSIVE traverse(_, _, _)
traverse(obj, path, depth) ==
    LET deep == IF depth > DeepNestingDepth
                THEN <<Issue("Deep Nesting", "warning", path,
                             <<"Deeply nested structure (depth: ">>
                                 \o NatToText(depth) \o <<")">>,
                             <<"Consider flattening the data structure for better performance">>)>>
                ELSE <<>>
    IN  IF obj.type = "array"
        THEN LET n == Len(obj.items)
                 large == IF n > LargeArrayLength
                          THEN <<Issue("Large Array", "warning", path,
                                       <<"Large array with ">> \o NatToText(n)
                                           \o <<" items">>,
                                       <<"Consider pagination or chunking for better performance">>)>>
                          ELSE <<>>
                 empty == IF n = 0
                          THEN <<Issue("Empty Structure", "info", path,
                                       <<"Empty array">>,
                                       <<"This array contains no items">>)>>
                          ELSE <<>>
                 ofObjects == IF n > 0 /\ IsObjectLike(obj.items[1])
                              THEN DuplicateIssues(obj, path)
                                   \o InconsistentIssues(obj, path)
                              ELSE <<>>
             IN  deep \o large \o empty \o ofObjects
                 \o Flatten([i \in 1..n |->
                        traverse(obj.items[i],
                                 path \o <<"[">> \o NatToText(i - 1) \o <<"]">>,
                                 depth + 1)])
        ELSE IF obj.type = "object"
        THEN LET empty == IF obj.props = <<>>
                          THEN <<Issue("Empty Structure", "info", path,
                                       <<"Empty object">>,
                                       <<"This object has no properties">>)>>
                          ELSE <<>>
                 OfKey(i) ==
                     LET value == obj.props[i][2]
                         childPath == path \o <<".">> \o obj.props[i][1]
                         null == IF value.type = "null"
                                 THEN <<Issue("Null Value", "info", childPath,
                                              <<"Property has null value">>,
                                              <<"Consider removing or providing a default value">>)>>
                                 ELSE <<>>
                         string == IF value.type = "string"
                                      /\ Len(value.s) > LargeStringLength
                                   THEN <<Issue("Large String", "warning", childPath,
                                                <<"Large string value (">>
                                                    \o NatToText(Len(value.s))
                                                    \o <<" characters)">>,
                                                <<"Consider storing large text in separate files or databases">>)>>
                                   ELSE <<>>
                     IN  null \o string \o traverse(value, childPath, depth + 1)
             IN  deep \o empty \o Flatten([i \in 1..Len(obj.props) |-> OfKey(i)])
        ELSE deep

\* traverse throws: some array reached by the traversal has a null item
\* whose id field is read by the duplicate check (item[idField] of null)
RECURSIVE TraverseThrows(_)
TraverseThrows(obj) ==
    LET DuplicateCheckThrows ==
            /\ obj.items # <<>>
            /\ IsObjectLike(obj.items[1])
            /\ CheckedIdField(obj) # <<>>
            /\ \E i \in 1..Len(obj.items) : obj.items[i].type = "null"
    IN  IF obj.type = "array"
        THEN DuplicateCheckThrows
             \/ \E i \in 1..Len(obj.items) : TraverseThrows(obj.items[i])
        ELSE IF obj.type = "object"
        THEN \E i \in 1..Len(obj.props) : TraverseThrows(obj.props[i][2])
        ELSE FALSE

\* The keys counted in keyFrequency, in the order they are met
RECURSIVE TraversedKeys(_)
TraversedKeys(obj) ==
    IF obj.type = "array"
    THEN Flatten([i \in 1..Len(obj.items) |-> TraversedKeys(obj.items[i])])
    ELSE IF obj.type = "object"
    THEN Flatten([i \in 1..Len(obj.props) |->
                     <<obj.props[i][1]>> \o TraversedKeys(obj.props[i][2])])
    ELSE <<>>

\* The stats of a run: the counters and maxima as traverse updates them.
\* `pending` holds the calls traverse(obj, path, depth) still to run, in
\* their order, as <<obj, depth>>; `counted` the stats before them. The
\* counters only grow by sums and maxima, so the stats after several calls
\* are the stats of their first half joined with those of their second
\* half, and one call joins its own counts with those of the calls for its
\* children.
RECURSIVE Stats(_, _)
Stats(pending, counted) ==
    LET Counts(keys, depth, arrays, objects, array, string) ==
            [totalKeys |-> keys, maxDepth |-> depth, totalArrays |-> arrays,
             totalObjects |-> objects, largestArray |-> array,
             largestString |-> string]
        Joined(before, after) ==
            Counts(before.totalKeys + after.totalKeys,
                   Max(before.maxDepth, after.maxDepth),
                   before.totalArrays + after.totalArrays,
                   before.totalObjects + after.totalObjects,
                   Max(before.largestArray, after.largestArray),
                   Max(before.largestString, after.largestString))
        None == Counts(0, 0, 0, 0, 0, 0)
        Largest(lengths) == CHOOSE m \in lengths : \A n \in lengths : n <= m
        \* what traverse(obj, path, depth) counts before it calls itself
        Own(obj, depth) ==
            Counts(IF obj.type = "object" THEN Len(obj.props) ELSE 0,
                   depth,
                   IF obj.type = "array" THEN 1 ELSE 0,
                   IF obj.type = "object" THEN 1 ELSE 0,
                   IF obj.type = "array" THEN Len(obj.items) ELSE 0,
                   Largest({0} \cup
                           (IF obj.type = "object"
                            THEN {Len(obj.props[i][2].s) :
                                     i \in {k \in 1..Len(obj.props) :
                                               obj.props[k][2].type = "string"}}
                            ELSE {})))
        Calls(obj, depth) ==
            IF obj.type = "array"
            THEN [i \in 1..Len(obj.items) |-> <<obj.items[i], depth + 1>>]
            ELSE IF obj.type = "object"
            THEN [i \in 1..Len(obj.props) |-> <<obj.props[i][2], depth + 1>>]
            ELSE <<>>
    IN  IF pending = <<>> THEN counted
        ELSE IF Len(pending) > 1
        THEN Joined(Stats(SubSeq(pending, 1, Len(pending) \div 2), counted),
                    Stats(SubSeq(pending, Len(pending) \div 2 + 1, Len(pending)),
                          None))
        ELSE Joined(Joined(counted, Own(pending[1][1], pending[1][2])),
                    Stats(Calls(pending[1][1], pending[1][2]), None))

\* keyFrequency.forEach: one issue per key met more than RepeatedKeyCount
\* times, in the order the keys were first met
RepeatedKeyIssues(keys) ==
    LET Occurrences(key) == Cardinality({i \in 1..Len(keys) : keys[i] = key})
        IsFirst(i) == \A j \in 1..(i - 1) : keys[j] # keys[i]
        Repeated(i) == IsFirst(i) /\ Occurrences(keys[i]) > RepeatedKeyCount
        hits == SelectSeq([i \in 1..Len(keys) |-> i], Repeated)
    IN  [k \in 1..Len(hits) |->
            Issue("Repeated Key", "info", <<"*">>,
                  <<"Key \"">> \o keys[hits[k]] \o <<"\" appears ">>
                      \o NatToText(Occurrences(keys[hits[k]])) \o <<" times">>,
                  <<"High repetition might indicate denormalized data">>)]

severityOrder(severity) ==
    CASE severity = "error" -> 0 [] severity = "warning" -> 1 [] OTHER -> 2

\* SortBySeverity that puts an issue before the sorted issues of its own
\* severity
SortBySeverityUnstable(issues) ==
    LET Reverse(found) == [i \in 1..Len(found) |-> found[Len(found) + 1 - i]]
        Of(order) ==
            Reverse(SelectSeq(issues,
                              LAMBDA issue : severityOrder(issue.severity) = order))
    IN  Of(0) \o Of(1) \o Of(2)

\* issues.sort(compare) where compare is the difference of the severity
\* orders: Array.prototype.sort is stable, so the issues of one severity
\* keep their order and follow the issues of every smaller order
SortBySeverity(issues) ==
    LET Of(order) ==
            SelectSeq(issues, LAMBDA issue : severityOrder(issue.severity) = order)
    IN  Of(0) \o Of(1) \o Of(2)

\* The AnalyzeView: `shown` is showAnalyzeModal of the DocumentViewer,
\* `hasResult` tells `analysis` from null, `error` is its error state
AnalyzeViewState(shown, hasResult, issues, stats, err) ==
    [shown |-> shown, hasResult |-> hasResult, issues |-> issues,
     stats |-> stats, error |-> err]

NoAnalysis ==
    AnalyzeViewState(FALSE, FALSE, <<>>,
                     [totalKeys |-> 0, maxDepth |-> 0, totalArrays |-> 0,
                      totalObjects |-> 0, largestArray |-> 0, largestString |-> 0],
                     NULL)

\* analyzeJson() of the AnalyzeView over its jsonContent; a failed run sets
\* the error and keeps the analysis of the run before
analyzeJson(jsonContent, previous) ==
    LET r == JSONparse(jsonContent)
    IN  IF ~r.ok
        THEN AnalyzeViewState(TRUE, previous.hasResult, previous.issues,
                              previous.stats, SyntaxErrorMessage)
        ELSE IF TraverseThrows(r.value)
        THEN AnalyzeViewState(TRUE, previous.hasResult, previous.issues,
                              previous.stats, "Cannot read properties of null")
        ELSE AnalyzeViewState(TRUE, TRUE,
                 SortBySeverity(traverse(r.value, <<"$">>, 0)
                                \o RepeatedKeyIssues(TraversedKeys(r.value))),
                 Stats(<< <<r.value, 0>> >>, NoAnalysis.stats),
                 NULL)

\* The AnalyzeView after the DocumentViewer re-rendered with the text
\* `jsonContent`: its effect on [jsonContent] runs analyzeJson again
AnalyzeViewRender(oldContent, jsonContent) ==
    IF analysis.shown /\ jsonContent # oldContent
    THEN analyzeJson(jsonContent, analysis)
    ELSE analysis

-----------------------------------------------------------------------------
(* App: document, version history and cursor                               *)

MAX_HISTORY_LENGTH == 50

VersionHistoryItem(content, timestamp, label) ==
    [content |-> content, timestamp |-> timestamp, label |-> label]

DocumentState(raw, parsed, isValid, err) ==
    [raw |-> raw, parsed |-> parsed, isValid |-> isValid, error |-> err]

EmptyDocument == DocumentState(<<>>, JNull, FALSE, NULL)

\* `document.parsed ? <document-section> : <upload-section>`: DocumentViewer,
\* DataEditor and QueryTool exist only while document.parsed is truthy.
Mounted == Truthy(document.parsed)

\* versionHistory.slice(0, currentVersionIndex + 1), or [] without a cursor
newHistory(history, index) ==
    IF index >= 0 THEN Slice(history, 0, index + 1) ELSE <<>>

\* trimmedHistory cut at the wrong end: the oldest versions are kept
trimmedHistoryKeepsOldest(updatedHistory) ==
    IF Len(updatedHistory) > MAX_HISTORY_LENGTH
    THEN Slice(updatedHistory, 0, MAX_HISTORY_LENGTH)
    ELSE updatedHistory

\* Keep only the most recent MAX_HISTORY_LENGTH versions
trimmedHistory(updatedHistory) ==
    IF Len(updatedHistory) > MAX_HISTORY_LENGTH
    THEN Slice(updatedHistory, Len(updatedHistory) - MAX_HISTORY_LENGTH,
               Len(updatedHistory))
    ELSE updatedHistory

NoTimer ==
    [pending |-> FALSE, newValue |-> <<>>,
     versionHistory |-> <<>>, currentVersionIndex |-> -1]

\* The DocumentViewer after the App re-rendered with `newData`, given the
\* values its handler left in the flag, the text, the error and the timer:
\* unmount (timer cleared), mount (fresh state, first run of the data
\* effect), or the data effect of an update.
ViewerRender(oldData, newData, flag, text, err, timer) ==
    IF ~Truthy(newData)
    THEN /\ rawJson' = <<>>
         /\ error' = NULL
         /\ debounceTimer' = NoTimer
         /\ isUserEditRef' = FALSE
         /\ analysis' = NoAnalysis
    ELSE IF ~Truthy(oldData)
    THEN /\ rawJson' = formatJson(newData)
         /\ error' = NULL
         /\ debounceTimer' = NoTimer
         /\ isUserEditRef' = FALSE
         /\ analysis' = NoAnalysis
    ELSE /\ error' = err
         /\ debounceTimer' = timer
         /\ IF DataChanged(oldData, newData)
            THEN /\ rawJson' = IF flag THEN text ELSE formatJson(newData)
                 /\ isUserEditRef' = FALSE
            ELSE /\ rawJson' = text
                 /\ isUserEditRef' = flag
         /\ analysis' = AnalyzeViewRender(rawJson, rawJson')

\* handleFileLoad that adds the loaded file to the history it finds
handleFileLoadKeepsHistory(content) ==
    /\ ~Mounted
    /\ LET result == parseJson(content)
       IN  IF result.success
           THEN /\ document' = DocumentState(content, result.data, TRUE, NULL)
                /\ versionHistory' =
                       Append(versionHistory,
                              VersionHistoryItem(content, now, "File loaded"))
                /\ currentVersionIndex' = Len(versionHistory)
                /\ now' = now + 1
           ELSE /\ document' = DocumentState(content, JNull, FALSE, result.error)
                /\ UNCHANGED <<versionHistory, currentVersionIndex, now>>
    /\ ViewerRender(document.parsed, document'.parsed,
                    isUserEditRef, rawJson, error, debounceTimer)
    /\ QueryToolRender(document.parsed, document'.parsed)
    /\ lastOp' = "load"
    /\ UNCHANGED highlightPath

\* handleFileLoad(content, name), reachable from the FileUploader only
handleFileLoad(content) ==
    /\ ~Mounted
    /\ LET result == parseJson(content)
       IN  IF result.success
           THEN /\ document' = DocumentState(content, result.data, TRUE, NULL)
                /\ versionHistory' =
                       <<VersionHistoryItem(content, now, "File loaded")>>
                /\ currentVersionIndex' = 0
                /\ now' = now + 1
           ELSE /\ document' = DocumentState(content, JNull, FALSE, result.error)
                /\ UNCHANGED <<versionHistory, currentVersionIndex, now>>
    /\ ViewerRender(document.parsed, document'.parsed,
                    isUserEditRef, rawJson, error, debounceTimer)
    /\ QueryToolRender(document.parsed, document'.parsed)
    /\ lastOp' = "load"
    /\ UNCHANGED highlightPath

\* The body of handleDocumentUpdate(newData) as run by a closure that holds
\* `history` and `index` for versionHistory and currentVersionIndex.
DocumentUpdate(newData, history, index) ==
    LET newContent == formatJson(newData)
        newVersion == VersionHistoryItem(newContent, now, "Edit")
        updatedHistory == Append(newHistory(history, index), newVersion)
    IN  /\ document' = DocumentState(newContent, newData, TRUE, NULL)
        /\ versionHistory' = trimmedHistory(updatedHistory)
        /\ currentVersionIndex' = Len(trimmedHistory(updatedHistory)) - 1
        /\ now' = now + 1

\* handleDocumentUpdate(newData) called by a structured editor (DataEditor,
\* ObjectEditor) from an event handler of the current render
handleDocumentUpdate(newData) ==
    /\ Mounted
    /\ DocumentUpdate(newData, versionHistory, currentVersionIndex)
    /\ ViewerRender(document.parsed, newData,
                    isUserEditRef, rawJson, error, debounceTimer)
    /\ QueryToolRender(document.parsed, newData)
    /\ lastOp' = "edit"
    /\ UNCHANGED highlightPath

\* RestoreVersion that re-serialises the parsed snapshot into document.raw
RestoreVersionFormatted(newIndex) ==
    LET version == versionHistory[newIndex + 1]
        result == parseJson(version.content)
    IN  IF result.success
        THEN /\ document' = DocumentState(formatJson(result.data), result.data,
                                          TRUE, NULL)
             /\ currentVersionIndex' = newIndex
             /\ ViewerRender(document.parsed, result.data,
                             isUserEditRef, rawJson, error, debounceTimer)
             /\ QueryToolRender(document.parsed, result.data)
        ELSE UNCHANGED <<document, currentVersionIndex, viewerVars, queryVars>>

\* The shared body of handleUndo and handleRedo once the guard passed
RestoreVersion(newIndex) ==
    LET version == versionHistory[newIndex + 1]
        result == parseJson(version.content)
    IN  IF result.success
        THEN /\ document' = DocumentState(version.content, result.data, TRUE, NULL)
             /\ currentVersionIndex' = newIndex
             /\ ViewerRender(document.parsed, result.data,
                             isUserEditRef, rawJson, error, debounceTimer)
             /\ QueryToolRender(document.parsed, result.data)
        ELSE UNCHANGED <<document, currentVersionIndex, viewerVars, queryVars>>

\* handleUndo that moves the cursor and leaves the document as it is
handleUndoCursorOnly ==
    /\ Mounted
    /\ IF currentVersionIndex > 0
       THEN /\ currentVersionIndex' = currentVersionIndex - 1
            /\ UNCHANGED <<document, viewerVars, queryVars>>
       ELSE UNCHANGED <<document, currentVersionIndex, viewerVars, queryVars>>
    /\ lastOp' = "undo"
    /\ UNCHANGED <<versionHistory, now, highlightPath>>

\* handleUndo that pops the undone version off the history
handleUndoPops ==
    /\ Mounted
    /\ IF currentVersionIndex > 0
       THEN /\ RestoreVersion(currentVersionIndex - 1)
            /\ versionHistory' = Slice(versionHistory, 0, currentVersionIndex)
       ELSE UNCHANGED <<document, currentVersionIndex, viewerVars, queryVars,
                        versionHistory>>
    /\ lastOp' = "undo"
    /\ UNCHANGED <<now, highlightPath>>

handleUndo ==
    /\ Mounted
    /\ IF currentVersionIndex > 0
       THEN RestoreVersion(currentVersionIndex - 1)
       ELSE UNCHANGED <<document, currentVersionIndex, viewerVars, queryVars>>
    /\ lastOp' = "undo"
    /\ UNCHANGED <<versionHistory, now, highlightPath>>

\* handleRedo that jumps to the latest version
handleRedoToLatest ==
    /\ Mounted
    /\ IF currentVersionIndex < Len(versionHistory) - 1
       THEN RestoreVersion(Len(versionHistory) - 1)
       ELSE UNCHANGED <<document, currentVersionIndex, viewerVars, queryVars>>
    /\ lastOp' = "redo"
    /\ UNCHANGED <<versionHistory, now, highlightPath>>

handleRedo ==
    /\ Mounted
    /\ IF currentVersionIndex < Len(versionHistory) - 1
       THEN RestoreVersion(currentVersionIndex + 1)
       ELSE UNCHANGED <<document, currentVersionIndex, viewerVars, queryVars>>
    /\ lastOp' = "redo"
    /\ UNCHANGED <<versionHistory, now, highlightPath>>

\* handleReset ("New File"): the history and the cursor are kept
handleReset ==
    /\ Mounted
    /\ document' = EmptyDocument
    /\ ViewerRender(document.parsed, JNull,
                    isUserEditRef, rawJson, error, debounceTimer)
    /\ QueryToolRender(document.parsed, JNull)
    /\ lastOp' = "reset"
    /\ UNCHANGED <<versionHistory, currentVersionIndex, now, highlightPath>>

\* setHighlightPath(path), from a query result or a tree node
setHighlightPath(path) ==
    /\ Mounted
    /\ highlightPath' = path
    /\ lastOp' = "highlight"
    /\ UNCHANGED <<document, versionHistory, currentVersionIndex, now,
                   viewerVars, queryVars>>

-----------------------------------------------------------------------------
(* DocumentViewer: editor text and debounced commit                        *)

\* handleJsonChange(value): a keystroke in the editor. The timeout callback
\* closes over the onUpdate of this render, that is over the versionHistory
\* and currentVersionIndex the App holds now.
handleJsonChange(value) ==
    /\ Mounted
    /\ value # rawJson
    /\ rawJson' = value
    /\ debounceTimer' =
           [pending |-> TRUE, newValue |-> value,
            versionHistory |-> versionHistory,
            currentVersionIndex |-> currentVersionIndex]
    /\ analysis' = AnalyzeViewRender(rawJson, value)
    /\ lastOp' = "key"
    /\ UNCHANGED <<appVars, error, isUserEditRef, now, queryVars>>

\* The timeout callback of handleJsonChange, one second after the last key
debounceCallback ==
    /\ debounceTimer.pending
    /\ LET r == JSONparse(debounceTimer.newValue)
       IN  IF r.ok
           THEN /\ DocumentUpdate(r.value, debounceTimer.versionHistory,
                                  debounceTimer.currentVersionIndex)
                /\ ViewerRender(document.parsed, r.value,
                                TRUE, rawJson, NULL, NoTimer)
                /\ QueryToolRender(document.parsed, r.value)
                /\ lastOp' = "commit"
           ELSE /\ error' = SyntaxErrorMessage
                /\ debounceTimer' = NoTimer
                /\ lastOp' = "reject"
                /\ UNCHANGED <<document, versionHistory, currentVersionIndex,
                               now, rawJson, isUserEditRef, analysis, queryVars>>
    /\ UNCHANGED highlightPath

\* The highlight effect (deps [highlightPath, rawJson]) runs its line scan in
\* this step: the editor exists, a path is set and a dependency changed.
HighlightEffectRuns ==
    /\ Truthy(document'.parsed)
    /\ highlightPath' # NoPath
    /\ \/ highlightPath' # highlightPath
       \/ rawJson' # rawJson
       \/ ~Mounted

-----------------------------------------------------------------------------
(* Inputs                                                                  *)

-----------------------------------------------------------------------------
(* Specification of the host and the viewer                                *)

Init ==
    /\ document = EmptyDocument
    /\ highlightPath = NoPath
    /\ versionHistory = <<>>
    /\ currentVersionIndex = -1
    /\ rawJson = <<>>
    /\ error = NULL
    /\ debounceTimer = NoTimer
    /\ isUserEditRef = FALSE
    /\ now = 1
    /\ lastOp = "init"
    /\ availableProperties = <<>>
    /\ conditions = <<>>
    /\ logicOperator = "AND"
    /\ query = <<>>
    /\ queryResult = NoResult
    /\ analysis = NoAnalysis

\* The user loads a file
FileLoad ==
    /\ now < MaxClock
    /\ \E content \in {formatJson(DocA), Minified(DocB), InvalidText} :
           handleFileLoad(content)

StructuredEdit ==
    now < MaxClock /\ \E newData \in {DocA, DocB} : handleDocumentUpdate(newData)

\* A keystroke leaves a text in the editor
Keystroke ==
    \E value \in {formatJson(DocA), formatJson(DocB), Minified(DocA),
                  Stringify(JNull, <<>>, <<>>), InvalidText} :
        handleJsonChange(value)

TimerFires == now < MaxClock /\ debounceCallback

Highlight == \E path \in {<<"a">>} : setHighlightPath(path)

Next ==
    \/ FileLoad
    \/ StructuredEdit
    \/ handleUndo
    \/ handleRedo
    \/ handleReset
    \/ Highlight
    \/ Keystroke
    \/ TimerFires

Spec == Init /\ [][Next]_vars

-----------------------------------------------------------------------------
(* Specification of a long editing session: one file, then a run of        *)
(* structured edits that flip the document between DocA and DocB; undo and *)
(* redo are exercised once more than LongRun snapshots were taken.         *)

\* The edit of the long session: the other one of the two documents
LongEdit ==
    /\ now < MaxClockLong
    /\ handleDocumentUpdate(IF document.parsed = DocA THEN DocB ELSE DocA)

NextLong ==
    \/ now < MaxClockLong /\ handleFileLoad(formatJson(DocA))
    \/ LongEdit
    \/ now - 1 > LongRun /\ handleUndo
    \/ now - 1 > LongRun /\ handleRedo

SpecLong == Init /\ [][NextLong]_vars

-----------------------------------------------------------------------------
(* Version history: claims C1 - C8                                         *)

\* C1: the version history never holds more than MAX_HISTORY_LENGTH (50)
\* entries; after n consecutive snapshots (the loaded file, then edits) it
\* holds exactly the min(n, 50) most recent ones in order, the oldest n - 50
\* evicted, with the cursor at the last index: 60 snapshots leave the 50
\* snapshots 11..60.
HistoryBounded ==
    LET n == now - 1
        Snapshot(k) ==
            IF k = 1 THEN [content |-> formatJson(DocA), timestamp |-> 1,
                           label |-> "File loaded"]
            ELSE [content |-> formatJson(IF k % 2 = 1 THEN DocA ELSE DocB),
                  timestamp |-> k, label |-> "Edit"]
        evicted == IF n > MAX_HISTORY_LENGTH THEN n - MAX_HISTORY_LENGTH ELSE 0
    IN  /\ Len(versionHistory) <= MAX_HISTORY_LENGTH
        /\ (n >= 1 /\ n <= LongRun) =>
              /\ Len(versionHistory) = n - evicted
              /\ \A i \in 1..Len(versionHistory) :
                     versionHistory[i] = Snapshot(i + evicted)
              /\ currentVersionIndex = Len(versionHistory) - 1

\* C1 witness: a full history whose ten oldest snapshots were evicted, the
\* cursor on the entry just appended
HistoryFullAfterEviction ==
    /\ lastOp = "edit"
    /\ Len(versionHistory) = MAX_HISTORY_LENGTH
    /\ versionHistory[1].timestamp = 11
    /\ versionHistory[MAX_HISTORY_LENGTH].timestamp = 60
    /\ currentVersionIndex = MAX_HISTORY_LENGTH - 1

\* C2 (as claimed): every append - a structured edit or the commit of a
\* debounced edit - made with the cursor at c in a history h leaves h[0..c]
\* followed by the new snapshot, cut at the front to the capacity, and the
\* cursor on the last index.
AppendFollowsCursor ==
    [][lastOp' \in {"edit", "commit"} =>
          LET kept == SubSeq(versionHistory, 1, currentVersionIndex + 1)
              all == Append(kept, versionHistory'[Len(versionHistory')])
              drop == IF Len(all) > MAX_HISTORY_LENGTH
                      THEN Len(all) - MAX_HISTORY_LENGTH ELSE 0
          IN  /\ versionHistory' = SubSeq(all, drop + 1, Len(all))
              /\ currentVersionIndex' = Len(versionHistory') - 1]_vars

\* C3: undo changes nothing when the cursor is 0; otherwise the cursor goes
\* down by exactly one and the document becomes the snapshot stored there.
UndoContract ==
    [][lastOp' = "undo" =>
          IF currentVersionIndex = 0
          THEN UNCHANGED <<document, versionHistory, currentVersionIndex>>
          ELSE /\ currentVersionIndex' = currentVersionIndex - 1
               /\ versionHistory' = versionHistory
               /\ document'.raw = versionHistory[currentVersionIndex].content
               /\ document'.isValid
               /\ \E g \in Layouts :
                      Stringify(document'.parsed, g, <<>>) = document'.raw]_vars

\* C3 witness: an undo moved the cursor off the last entry
UndoActed ==
    /\ lastOp = "undo"
    /\ currentVersionIndex >= 0
    /\ currentVersionIndex < Len(versionHistory) - 1
    /\ document.raw = versionHistory[currentVersionIndex + 1].content

\* C4: redo changes nothing when the cursor is at length - 1; otherwise the
\* cursor goes up by exactly one and the document becomes the snapshot
\* stored there.
RedoContract ==
    [][lastOp' = "redo" =>
          IF currentVersionIndex = Len(versionHistory) - 1
          THEN UNCHANGED <<document, versionHistory, currentVersionIndex>>
          ELSE /\ currentVersionIndex' = currentVersionIndex + 1
               /\ versionHistory' = versionHistory
               /\ document'.raw = versionHistory[currentVersionIndex + 2].content
               /\ document'.isValid
               /\ \E g \in Layouts :
                      Stringify(document'.parsed, g, <<>>) = document'.raw]_vars

\* C4 witness: a redo moved the cursor forward
RedoActed ==
    /\ lastOp = "redo"
    /\ currentVersionIndex >= 1
    /\ Len(versionHistory) >= 2
    /\ document.raw = versionHistory[currentVersionIndex + 1].content

\* C5: while a document is loaded, the snapshot at the cursor is the
\* displayed document: versionHistory[currentVersionIndex].content = raw.
CursorShowsDocument ==
    document.parsed # JNull =>
        /\ currentVersionIndex >= 0
        /\ currentVersionIndex < Len(versionHistory)
        /\ versionHistory[currentVersionIndex + 1].content = document.raw

\* C5 witness: a debounced edit was committed after the cursor had moved
\* off the loaded file, and a document is displayed
CommitWithDocument ==
    /\ lastOp = "commit"
    /\ document.parsed # JNull
    /\ Len(versionHistory) >= 3
    /\ versionHistory[1].content = Minified(DocB)

\* C6 (as claimed): the commit of a debounced edit appends to the history
\* and cursor that are current when the timer fires: the entries before
\* the new snapshot are (current history)[0..current cursor].
CommitUsesCurrentHistory ==
    [][lastOp' = "commit" =>
          SubSeq(versionHistory', 1, Len(versionHistory') - 1)
              = SubSeq(versionHistory, 1, currentVersionIndex + 1)]_vars

\* C7 (as claimed): whenever the highlight scan runs, the text it reads is
\* the serialisation of the current parsed document.
ScanReadsCurrentDocument ==
    [][HighlightEffectRuns => rawJson' = formatJson(document'.parsed)]_vars

\* C8: undo and redo leave the sequence of history entries unchanged, and
\* an entry that is still in the history after a step (the same snapshot,
\* known by its creation time) has the content, timestamp and label it had
\* before the step, the survivors keeping their order.
EntriesImmutable ==
    [][/\ lastOp' \in {"undo", "redo"} => versionHistory' = versionHistory
       /\ \A i \in 1..Len(versionHistory') : \A j \in 1..Len(versionHistory) :
              versionHistory'[i].timestamp = versionHistory[j].timestamp =>
                  /\ versionHistory'[i] = versionHistory[j]
                  /\ i <= j
                  /\ \A k \in 1..(i - 1) :
                         versionHistory'[k] = versionHistory[k + (j - i)]]_vars

\* C8 witness: an edit made after an undo, with a full history
EditAfterUndoInFullHistory ==
    /\ lastOp = "edit"
    /\ Len(versionHistory) = MAX_HISTORY_LENGTH
    /\ versionHistory[MAX_HISTORY_LENGTH].timestamp
           > versionHistory[MAX_HISTORY_LENGTH - 1].timestamp + 1

-----------------------------------------------------------------------------
(* Specification of the visual query builder over a loaded price list      *)

addCondition ==
    /\ Mounted
    /\ conditions' = Append(conditions,
           Condition(NatToText(now),
                     IF availableProperties # <<>> THEN availableProperties[1]
                     ELSE <<>>,
                     Op.Eq, <<>>))
    /\ now' = now + 1
    /\ lastOp' = "addCondition"
    /\ UNCHANGED <<appVars, viewerVars, availableProperties, logicOperator,
                   query, queryResult>>

removeCondition(id) ==
    /\ Mounted
    /\ conditions' = SelectSeq(conditions, LAMBDA c : c.id # id)
    /\ lastOp' = "removeCondition"
    /\ UNCHANGED <<appVars, viewerVars, now, availableProperties, logicOperator,
                   query, queryResult>>

updateCondition(id, field, value) ==
    /\ Mounted
    /\ conditions' =
           [i \in 1..Len(conditions) |->
               IF conditions[i].id = id
               THEN [conditions[i] EXCEPT ![field] = value]
               ELSE conditions[i]]
    /\ lastOp' = "updateCondition"
    /\ UNCHANGED <<appVars, viewerVars, now, availableProperties, logicOperator,
                   query, queryResult>>

setLogicOperator(op) ==
    /\ Mounted
    /\ conditions # <<>>
    /\ logicOperator' = op
    /\ lastOp' = "setLogicOperator"
    /\ UNCHANGED <<appVars, viewerVars, now, availableProperties, conditions,
                   query, queryResult>>

\* What the user enters into a field of the i-th condition: the first
\* condition takes every property, operator and literal, the later ones
\* only a literal out of two.
FieldInputs(i, field) ==
    LET \* Characters of the literals typed into a condition
        LiteralAlphabet == {"1", "-", ".", " ", "a"}
        \* Literals typed in full
        NamedLiterals ==
            {<<"1", "0", "0">>, Text.True, Text.False, Text.Null, <<"1", "e", "1">>,
             <<"0", "x", "1">>}
        Literals ==
            NamedLiterals \cup UNION {[1..k -> LiteralAlphabet] : k \in 0..MaxLiteralLen}
    IN  CASE field = "property" -> IF i = 1 THEN Range(availableProperties) ELSE {}
          [] field = "operator" -> IF i = 1
                                   THEN {Op.Eq, Op.Ne, Op.Gt, Op.Ge, Op.Lt, Op.Le,
                                         Op.Contains, Op.Regex}
                                   ELSE {}
          [] field = "value" -> IF i = 1 THEN Literals ELSE {<<>>, <<"a">>}

UpdateCondition ==
    \E i \in 1..Len(conditions) : \E field \in {"property", "operator", "value"} :
        \E value \in FieldInputs(i, field) :
            updateCondition(conditions[i].id, field, value)

NextQuery ==
    \/ ~Mounted /\ handleFileLoad(Minified(PriceList))
    \/ Len(conditions) < MaxConditions /\ now < MaxConditions + 2 /\ addCondition
    \/ \E i \in 1..Len(conditions) : removeCondition(conditions[i].id)
    \/ UpdateCondition
    \/ \E op \in {"AND", "OR"} : setLogicOperator(op)

SpecQuery == Init /\ [][NextQuery]_vars

-----------------------------------------------------------------------------
(* Visual query builder: claims C9 - C10                                   *)

\* C9 (as claimed): for every condition whose operator is not `contains`
\* (regex included) the literal is emitted unquoted exactly when it parses
\* as a number or is exactly true, false or null, and in double quotes
\* otherwise; the empty string and white space are not numbers.
LiteralQuotingRule ==
    \A i \in 1..Len(conditions) :
        LET c == conditions[i]
            parsesAsNumber == IsNumeric(c.value) /\ Trim(c.value) # <<>>
            bare == parsesAsNumber \/ c.value \in {Text.True, Text.False, Text.Null}
        IN  c.operator # Op.Contains =>
                filterExpression(c) =
                    <<"@", ".">> \o c.property \o <<" ">> \o c.operator \o <<" ">>
                    \o (IF bare THEN c.value ELSE <<"\"">> \o c.value \o <<"\"">>)

\* C10: a non-empty condition list compiles to `$[?(` joined `)]`, where the
\* i-th joined part renders the i-th condition (`@.<property> =~ /<literal>/i`
\* for contains, `@.<property> <operator> <literal, bare or quoted>`
\* otherwise) and the parts are separated by ` && ` (AND) or ` || ` (OR);
\* {price, >, "100"} with AND compiles to `$[?(@.price > 100)]`.
CompilationPreservesStructure ==
    LET compiled == generateJSONPathFromConditions(conditions, logicOperator)
        separator == IF logicOperator = "AND" THEN <<" ", "&", "&", " ">>
                     ELSE <<" ", "|", "|", " ">>
        Renders(c, part) ==
            IF c.operator = Op.Contains
            THEN part = <<"@", ".">> \o c.property \o <<" ", "=", "~", " ", "/">>
                        \o c.value \o <<"/", "i">>
            ELSE \E literal \in {c.value, <<"\"">> \o c.value \o <<"\"">>} :
                     part = <<"@", ".">> \o c.property \o <<" ">> \o c.operator
                            \o <<" ">> \o literal
        \* the text from position `from` on is the rendering of the
        \* conditions i.., each but the last followed by the separator
        RECURSIVE Matches(_, _)
        Matches(i, from) ==
            IF i = Len(conditions)
            THEN /\ from <= Len(compiled) - 1
                 /\ Renders(conditions[i], SubSeq(compiled, from, Len(compiled) - 2))
                 /\ SubSeq(compiled, Len(compiled) - 1, Len(compiled)) = <<")", "]">>
            ELSE \E to \in from..(Len(compiled) - 4) :
                     /\ Renders(conditions[i], SubSeq(compiled, from, to))
                     /\ SubSeq(compiled, to + 1, to + 4) = separator
                     /\ Matches(i + 1, to + 5)
    IN  /\ conditions # <<>> =>
              /\ SubSeq(compiled, 1, 4) = <<"$", "[", "?", "(">>
              /\ Matches(1, 5)
        /\ ( /\ Len(conditions) = 1
             /\ conditions[1].property = <<"p", "r", "i", "c", "e">>
             /\ conditions[1].operator = Op.Gt
             /\ conditions[1].value = <<"1", "0", "0">>
             /\ logicOperator = "AND" ) =>
              compiled = <<"$", "[", "?", "(", "@", ".", "p", "r", "i", "c", "e",
                           " ", ">", " ", "1", "0", "0", ")", "]">>

\* C10 witness: a contains condition followed by another one, joined by OR
ContainsJoinedByOr ==
    /\ Len(conditions) >= 2
    /\ conditions[1].operator = Op.Contains
    /\ conditions[1].value = <<"a">>
    /\ conditions[2].value = <<"a">>
    /\ logicOperator = "OR"

-----------------------------------------------------------------------------
(* QueryTool: query execution                                              *)

\* The path of a node as the evaluator reports it: `$`, then `[i]` for an
\* array index and `['key']` for an object key
EvaluatorPath(segments) ==
    LET PathStep(segment) ==
            IF segment.type = "index"
            THEN <<"[">> \o NatToText(segment.value) \o <<"]">>
            ELSE <<"[", "'">> \o segment.value \o <<"'", "]">>
    IN  <<"$">> \o Flatten([i \in 1..Len(segments) |-> PathStep(segments[i])])

IndexSegment(i) == [type |-> "index", value |-> i]

PropertySegment(key) == [type |-> "property", value |-> key]

Match(value, segments) == [value |-> value, segments |-> segments]

\* The children of a node with their places, in document order
ChildMatches(node) ==
    IF node.value.type = "array"
    THEN [i \in 1..Len(node.value.items) |->
             Match(node.value.items[i], Append(node.segments, IndexSegment(i - 1)))]
    ELSE IF node.value.type = "object"
    THEN [i \in 1..Len(node.value.props) |->
             Match(node.value.props[i][2],
                   Append(node.segments, PropertySegment(node.value.props[i][1])))]
    ELSE <<>>

\* The descendants of a node in document (depth-first, pre-order) order
RECURSIVE Descendants(_)
Descendants(node) ==
    Flatten([i \in 1..Len(ChildMatches(node)) |->
                <<ChildMatches(node)[i]>> \o Descendants(ChildMatches(node)[i])])

IsIntegerText(text) ==
    LET digits == IF text # <<>> /\ text[1] = "-" THEN Tail(text) ELSE text
    IN  /\ digits # <<>>
        /\ AllIn(digits, DecimalDigits)
        /\ (Len(digits) > 1 => digits[1] # "0")

IntegerOfText(text) ==
    IF text[1] = "-" THEN 0 - TextToNat(Tail(text)) ELSE TextToNat(text)

Root(json) == Match(json, <<>>)

\* JSONPath({path, json, resultType: 'all'}): the outcomes the evaluator may
\* have. `$`, `$[*]`, `$..*` and a filter `$[?(...)]` of known comparisons
\* joined by && or by || have one outcome, the matches in document order
\* (where the filter reads a property of a null element: that, or a throw).
\* Of any other text the model only says that the evaluator throws or
\* returns some of the nodes.
JSONPath(path, json) ==
    LET NaN == [nan |-> TRUE, n |-> 0]
        Num(n) == [nan |-> FALSE, n |-> n]
        \* A comparison `@.<property> <operator> <literal>` read from its text;
        \* `known` tells the comparisons this model evaluates: a property without
        \* dots, one of the six comparison operators, and a literal that is a decimal
        \* integer, true, false, null or (for == and !=) a string in double quotes
        Comparison(text) ==
            LET s1 == IndexOf(text, <<" ">>, 1)
                s2 == IF s1 = 0 THEN 0 ELSE IndexOf(text, <<" ">>, s1 + 1)
                property == SubSeq(text, 3, s1 - 1)
                operator == SubSeq(text, s1 + 1, s2 - 1)
                literal == SubSeq(text, s2 + 1, Len(text))
                quoted == /\ Len(literal) >= 2
                          /\ literal[1] = "\""
                          /\ literal[Len(literal)] = "\""
                          /\ AllIn(SubSeq(literal, 2, Len(literal) - 1),
                                   Range(CodeOrder) \cup {" ", "-"})
                shaped == /\ s1 > 3
                          /\ s2 > s1 + 1
                          /\ SubSeq(text, 1, 2) = <<"@", ".">>
                          /\ AllIn(property, Range(CodeOrder) \ {".", ",", "[", "]"})
                          /\ operator \in {Op.Eq, Op.Ne, Op.Gt, Op.Ge, Op.Lt, Op.Le}
            IN  [known |-> /\ shaped
                           /\ \/ IsIntegerText(literal)
                              \/ literal \in {Text.True, Text.False, Text.Null}
                              \/ quoted /\ operator \in {Op.Eq, Op.Ne},
                 property |-> property,
                 operator |-> operator,
                 literal |-> IF ~shaped THEN JNull
                             ELSE IF IsIntegerText(literal) THEN JNum(IntegerOfText(literal))
                             ELSE IF literal = Text.True THEN JBool(TRUE)
                             ELSE IF literal = Text.False THEN JBool(FALSE)
                             ELSE IF quoted THEN JStr(SubSeq(literal, 2, Len(literal) - 1))
                             ELSE JNull]
        \* ToNumber of a primitive (the numeric strings of the documents are
        \* decimal integers)
        ToNumber(value) ==
            CASE value.type = "number" -> Num(value.n)
              [] value.type = "boolean" -> Num(IF value.b THEN 1 ELSE 0)
              [] value.type = "null" -> Num(0)
              [] value.type = "string" ->
                    IF Trim(value.s) = <<>> THEN Num(0)
                    ELSE IF IsIntegerText(Trim(value.s)) THEN Num(IntegerOfText(Trim(value.s)))
                    ELSE NaN
              [] OTHER -> NaN
        \* left == right of JavaScript for primitives; `defined` tells whether the
        \* left side is a value (a property that exists) or undefined
        LooseEquals(defined, left, right) ==
            IF ~defined THEN FALSE
            ELSE IF left.type = right.type THEN left = right
            ELSE IF left.type = "null" \/ right.type = "null" THEN FALSE
            ELSE ~ToNumber(left).nan /\ ~ToNumber(right).nan
                 /\ ToNumber(left).n = ToNumber(right).n
        \* left < right of JavaScript for a number on the right
        LessThan(defined, left, right) ==
            /\ defined
            /\ ~ToNumber(left).nan /\ ~ToNumber(right).nan
            /\ ToNumber(left).n < ToNumber(right).n
        \* The comparison holds of the element `@`
        Holds(comparison, element) ==
            LET defined == element.type = "object" /\ HasKey(element, comparison.property)
                left == IF defined THEN GetProperty(element, comparison.property) ELSE JNull
                right == comparison.literal
            IN  CASE comparison.operator = Op.Eq -> LooseEquals(defined, left, right)
                  [] comparison.operator = Op.Ne -> ~LooseEquals(defined, left, right)
                  [] comparison.operator = Op.Lt -> LessThan(defined, left, right)
                  [] comparison.operator = Op.Gt -> LessThan(defined, right, left)
                  [] comparison.operator = Op.Le ->
                        LessThan(defined, left, right) \/ LooseEquals(defined, left, right)
                  [] comparison.operator = Op.Ge ->
                        LessThan(defined, right, left) \/ LooseEquals(defined, left, right)
        Threw(message) == [threw |-> TRUE, message |-> message, matches |-> <<>>]
        Returned(matches) == [threw |-> FALSE, message |-> NULL, matches |-> matches]
        children == ChildMatches(Root(json))
        inner == SubSeq(path, 5, Len(path) - 2)
        isFilter == /\ Len(path) > 6
                    /\ SubSeq(path, 1, 4) = <<"$", "[", "?", "(">>
                    /\ SubSeq(path, Len(path) - 1, Len(path)) = <<")", "]">>
        conjuncts == Split(inner, <<" ", "&", "&", " ">>)
        disjuncts == Split(inner, <<" ", "|", "|", " ">>)
        parts == IF Len(conjuncts) > 1 THEN conjuncts ELSE disjuncts
        known == /\ isFilter
                 /\ \A i \in 1..Len(parts) : Comparison(parts[i]).known
                 /\ \A c \in 1..Len(children) :
                        children[c].value.type = "object" =>
                            \A i \in 1..Len(children[c].value.props) :
                                ~IsObjectLike(children[c].value.props[i][2])
        Passes(c) ==
            IF Len(conjuncts) > 1
            THEN \A i \in 1..Len(parts) : Holds(Comparison(parts[i]), children[c].value)
            ELSE \E i \in 1..Len(parts) : Holds(Comparison(parts[i]), children[c].value)
        passing == SelectSeq([c \in 1..Len(children) |-> c], Passes)
    IN  IF path = <<"$">> THEN {Returned(<<Root(json)>>)}
        ELSE IF path = <<"$", "[", "*", "]">> THEN {Returned(children)}
        ELSE IF path = <<"$", ".", ".", "*">> THEN {Returned(Descendants(Root(json)))}
        ELSE IF known
        THEN IF \E c \in 1..Len(children) : children[c].value.type = "null"
             THEN {Threw("jsonPath: Cannot read properties of null"),
                   Returned([k \in 1..Len(passing) |-> children[passing[k]]])}
             ELSE {Returned([k \in 1..Len(passing) |-> children[passing[k]]])}
        ELSE {Threw("jsonPath: Unexpected token")} \cup
             {Returned(m) : m \in {<<>>, children}}

\* convertJsonPathToAppPath: the replace of /\['([^']+)'\]/g from position i
\* on; a token ['body'] with a body of digits becomes [body], any other
\* becomes .body
RECURSIVE ReplaceQuotedTokens(_, _)
ReplaceQuotedTokens(path, i) ==
    IF i > Len(path) THEN <<>>
    ELSE LET q == IF StartsWith(path, i, <<"[", "'">>)
                  THEN IndexOf(path, <<"'">>, i + 2) ELSE 0
             matches == q > i + 2 /\ StartsWith(path, q, <<"'", "]">>)
             prop == SubSeq(path, i + 2, q - 1)
         IN  IF matches
             THEN (IF AllIn(prop, DecimalDigits)
                   THEN <<"[">> \o prop \o <<"]">>
                   ELSE <<".">> \o prop)
                  \o ReplaceQuotedTokens(path, q + 2)
             ELSE <<path[i]>> \o ReplaceQuotedTokens(path, i + 1)

\* convertJsonPathToAppPath without the removal of the leading `$`
convertJsonPathKeepsRoot(jsonPath) ==
    LET replaced == ReplaceQuotedTokens(jsonPath, 1)
    IN  IF StartsWith(replaced, 1, <<".", "[">>) THEN Tail(replaced) ELSE replaced

\* "$['store']['book'][0]['title']" -> ".store.book[0].title",
\* "$[0]['name']" -> "[0].name"
convertJsonPathToAppPath(jsonPath) ==
    LET stripped == IF StartsWith(jsonPath, 1, <<"$">>) THEN Tail(jsonPath)
                    ELSE jsonPath
        replaced == ReplaceQuotedTokens(stripped, 1)
    IN  IF StartsWith(replaced, 1, <<".", "[">>) THEN Tail(replaced) ELSE replaced

\* The QueryResult of a run that returned `items`
SuccessResult(items) ==
    [shown |-> TRUE, success |-> TRUE,
     data |-> [i \in 1..Len(items) |-> items[i].value],
     count |-> Len(items), items |-> items, error |-> NULL]

FailureResult(message) ==
    [shown |-> TRUE, success |-> FALSE, data |-> <<>>, count |-> 0,
     items |-> <<>>, error |-> message]

\* ResultOf with an empty match list reported as a failure
ResultOfFailsOnNoMatch(queryToExecute, outcome) ==
    IF Trim(queryToExecute) = <<>> THEN FailureResult("Please enter a JSONPath query")
    ELSE IF outcome.threw THEN FailureResult(outcome.message)
    ELSE IF outcome.matches = <<>> THEN FailureResult("No matches")
    ELSE SuccessResult([i \in 1..Len(outcome.matches) |->
             [value |-> outcome.matches[i].value,
              path |-> convertJsonPathToAppPath(
                           EvaluatorPath(outcome.matches[i].segments))]])

\* The result set by executeQueryWithPath(queryPath) when the evaluator ends
\* in `outcome`
ResultOf(queryToExecute, outcome) ==
    IF Trim(queryToExecute) = <<>> THEN FailureResult("Please enter a JSONPath query")
    ELSE IF outcome.threw THEN FailureResult(outcome.message)
    ELSE SuccessResult([i \in 1..Len(outcome.matches) |->
             [value |-> outcome.matches[i].value,
              path |-> convertJsonPathToAppPath(
                           EvaluatorPath(outcome.matches[i].segments))]])

\* executeQueryWithPath(queryPath), after `newQuery` was passed to setQuery
executeQueryWithPath(queryPath, newQuery) ==
    /\ Mounted
    /\ LET queryToExecute == IF queryPath # <<>> THEN queryPath ELSE query
       IN  \E outcome \in JSONPath(queryToExecute, document.parsed) :
               queryResult' = ResultOf(queryToExecute, outcome)
    /\ query' = newQuery
    /\ UNCHANGED <<appVars, viewerVars, now, availableProperties, conditions,
                   logicOperator>>

executeQuery ==
    /\ executeQueryWithPath(<<>>, query)
    /\ lastOp' = "executeQuery"

executeVisualQuery ==
    /\ conditions # <<>>
    /\ LET generatedQuery == generateJSONPathFromConditions(conditions, logicOperator)
       IN  executeQueryWithPath(generatedQuery, generatedQuery)
    /\ lastOp' = "executeVisualQuery"

setQuery(text) ==
    /\ Mounted
    /\ query' = text
    /\ lastOp' = "setQuery"
    /\ UNCHANGED <<appVars, viewerVars, now, availableProperties, conditions,
                   logicOperator, queryResult>>

clearResults ==
    /\ Mounted
    /\ queryResult.shown
    /\ queryResult' = NoResult
    /\ query' = <<>>
    /\ lastOp' = "clearResults"
    /\ UNCHANGED <<appVars, viewerVars, now, availableProperties, conditions,
                   logicOperator>>

-----------------------------------------------------------------------------
(* Specification of query execution: text mode and visual mode             *)

\* A list whose elements all have a price, three of them above 100
PricesOnly ==
    JArr(<<JObj(<< <<(<<"p", "r", "i", "c", "e">>), JNum(100)>> >>),
           JObj(<< <<(<<"p", "r", "i", "c", "e">>), JNum(300)>> >>),
           JObj(<< <<(<<"p", "r", "i", "c", "e">>), JNum(-1)>> >>),
           JObj(<< <<(<<"p", "r", "i", "c", "e">>), JNum(101)>> >>),
           JObj(<< <<(<<"p", "r", "i", "c", "e">>), JNum(150)>> >>)>>)

ExecLoad ==
    LET \* A list with an element that has no price and an element that is null
        GapList ==
            JArr(<<JObj(<< <<(<<"p", "r", "i", "c", "e">>), JNum(200)>> >>),
                   JObj(<< <<(<<"n", "a", "m", "e">>), JStr(<<"c">>)>> >>),
                   JNull,
                   JObj(<< <<(<<"p", "r", "i", "c", "e">>), JNum(101)>> >>)>>)
    IN  /\ now = 1
        /\ \E d \in {PriceList, PricesOnly, GapList, JArr(<<>>)} :
               handleFileLoad(Minified(d))

ExecUpdateCondition ==
    LET \* What the user enters into a field of the i-th condition before a run
        ExecFieldInputs(i, field) ==
            CASE field = "property" -> IF i = 1 THEN Range(availableProperties) ELSE {}
              [] field = "operator" -> IF i = 1 THEN {Op.Gt, Op.Eq} ELSE {}
              [] field = "value" -> IF i = 1 THEN {<<"1", "0", "0">>, <<>>, <<"-", "1">>}
                                    ELSE {<<"1", "0", "0">>}
    IN  \E i \in 1..Len(conditions) :
            \E field \in {"property", "operator", "value"} :
                \E value \in ExecFieldInputs(i, field) :
                    updateCondition(conditions[i].id, field, value)

SetQuery ==
    LET \* The texts typed into the query box
        QueryTexts ==
            {<<>>, <<" ">>, <<"$", "[", "*", "]">>, <<"$", "[", "?", "(">>,
             <<"$", "[", "?", "(", "@", ".", "p", "r", "i", "c", "e", " ", "<", " ",
               "0", ")", "]">>}
    IN  \E text \in QueryTexts : setQuery(text)

NextExec ==
    \/ ExecLoad
    \/ Len(conditions) < MaxExecConditions /\ now < MaxExecConditions + 3 /\ addCondition
    \/ ExecUpdateCondition
    \/ \E op \in {"AND", "OR"} : setLogicOperator(op)
    \/ SetQuery
    \/ executeQuery
    \/ executeVisualQuery
    \/ clearResults

SpecExec == Init /\ [][NextExec]_vars


-----------------------------------------------------------------------------
(* Query execution: claims C11 - C12                                       *)

\* C11: after the visual query of one condition {p, >, n} (p a property
\* name, n a decimal integer) ran against a root array of objects, the result lists exactly the
\* elements whose p is a number greater than n, in array order, each with the
\* address `[i]` of its index; the price list and price > 100 give one
\* match, element 0, with address `[0]`.
FilterReturnsGreaterElements ==
    LET c == conditions[1]
        elements == document.parsed.items
        Greater(i) ==
            /\ HasKey(elements[i], c.property)
            /\ GetProperty(elements[i], c.property).type = "number"
            /\ GetProperty(elements[i], c.property).n > IntegerOfText(c.value)
        expected == SelectSeq([i \in 1..Len(elements) |-> i], Greater)
    IN  /\ ( /\ lastOp = "executeVisualQuery"
             /\ Len(conditions) = 1
             /\ c.property # <<>>
             /\ c.operator = Op.Gt
             /\ IsIntegerText(c.value)
             /\ document.parsed.type = "array"
             /\ \A i \in 1..Len(elements) : elements[i].type = "object" ) =>
              /\ queryResult.success
              /\ queryResult.count = Len(expected)
              /\ Len(queryResult.items) = Len(expected)
              /\ \A k \in 1..Len(expected) :
                     /\ queryResult.items[k].value = elements[expected[k]]
                     /\ queryResult.items[k].path =
                            <<"[">> \o NatToText(expected[k] - 1) \o <<"]">>
        /\ ( /\ lastOp = "executeVisualQuery"
             /\ document.parsed = PriceList
             /\ Len(conditions) = 1
             /\ c.property = <<"p", "r", "i", "c", "e">>
             /\ c.operator = Op.Gt
             /\ c.value = <<"1", "0", "0">> ) =>
              /\ queryResult.count = 1
              /\ queryResult.items =
                     <<[value |-> PriceList.items[1], path |-> <<"[", "0", "]">>]>>

\* C11 witness: price > 100 ran against the list of five prices and matched
\* the elements 1, 3 and 4
ThreeOfFivePricesMatch ==
    /\ lastOp = "executeVisualQuery"
    /\ document.parsed = PricesOnly
    /\ Len(conditions) = 1
    /\ conditions[1].operator = Op.Gt
    /\ conditions[1].value = <<"1", "0", "0">>
    /\ queryResult.count = 3
    /\ queryResult.items[2].path = <<"[", "3", "]">>

\* C12: a query execution leaves document, history and cursor unchanged and
\* sets a result that depends on the query and the document only: a blank
\* query gives a failure with a message, a throw of the evaluator gives a
\* failure with its message, and a return gives success with the matches,
\* for no match the empty list and count 0.
ExecutionAlwaysEndsInResult ==
    [][lastOp' \in {"executeQuery", "executeVisualQuery"} =>
        /\ UNCHANGED <<document, versionHistory, currentVersionIndex>>
        /\ queryResult'.shown
        /\ IF Trim(query') = <<>>
           THEN ~queryResult'.success /\ queryResult'.error # NULL
           ELSE \E o \in JSONPath(query', document.parsed) :
                    IF o.threw
                    THEN /\ ~queryResult'.success
                         /\ queryResult'.error = o.message
                         /\ queryResult'.error # NULL
                    ELSE /\ queryResult'.success
                         /\ queryResult'.error = NULL
                         /\ queryResult'.count = Len(o.matches)
                         /\ Len(queryResult'.items) = Len(o.matches)
                         /\ queryResult'.data =
                                [i \in 1..Len(o.matches) |-> o.matches[i].value]]_vars

\* C12 witness: a run with no match, shown as a success with count 0
NoMatchIsSuccess ==
    /\ lastOp = "executeVisualQuery"
    /\ document.parsed = PriceList
    /\ queryResult.shown
    /\ queryResult.success
    /\ queryResult.count = 0
    /\ queryResult.items = <<>>


-----------------------------------------------------------------------------
(* Addresses: the tree editors, the search and the highlight parser        *)

\* The path text the tree editors and the search give a node:
\* `${path}[${index}]` or `[${index}]`, `${path}.${key}` or `key`
RECURSIVE EditorPath(_)
EditorPath(segments) ==
    IF segments = <<>> THEN <<>>
    ELSE LET path == EditorPath(SubSeq(segments, 1, Len(segments) - 1))
             last == segments[Len(segments)]
         IN  IF last.type = "index"
             THEN path \o <<"[">> \o NatToText(last.value) \o <<"]">>
             ELSE IF path # <<>> THEN path \o <<".">> \o last.value
             ELSE last.value

\* highlightPath.match(/\[(\d+)\]|([^.\[\]]+)/g), from position i on, each
\* match turned into a path segment
RECURSIVE pathSegments(_, _)
pathSegments(path, i) ==
    IF i > Len(path) THEN <<>>
    ELSE LET d == DigitsEnd(path, i + 1)
             isIndex == /\ path[i] = "["
                        /\ d > i + 1
                        /\ d <= Len(path)
                        /\ path[d] = "]"
             RECURSIVE NameEnd(_)
             NameEnd(j) == IF j <= Len(path) /\ path[j] \notin {".", "[", "]"}
                           THEN NameEnd(j + 1) ELSE j
             n == NameEnd(i)
         IN  IF isIndex
             THEN <<IndexSegment(TextToNat(SubSeq(path, i + 1, d - 1)))>>
                  \o pathSegments(path, d + 1)
             ELSE IF n > i
             THEN <<PropertySegment(SubSeq(path, i, n - 1))>> \o pathSegments(path, n)
             ELSE pathSegments(path, i + 1)

\* isHighlighted of a tree node
isHighlighted(highlightedPath, currentPath) == highlightedPath = currentPath

\* isParentOfHighlighted of a tree node ('' is falsy)
isParentOfHighlighted(highlightedPath, currentPath) ==
    /\ highlightedPath # <<>>
    /\ currentPath # <<>>
    /\ StartsWith(highlightedPath, 1, currentPath)
    /\ highlightedPath # currentPath

\* The value at an address of a document (absent: no such value)
RECURSIVE Resolve(_, _)
Resolve(root, segments) ==
    IF segments = <<>> THEN [present |-> TRUE, value |-> root]
    ELSE LET first == segments[1]
         IN  IF first.type = "index" /\ root.type = "array"
                /\ first.value < Len(root.items)
             THEN Resolve(root.items[first.value + 1], Tail(segments))
             ELSE IF first.type = "property" /\ root.type = "object"
                     /\ HasKey(root, first.value)
             THEN Resolve(GetProperty(root, first.value), Tail(segments))
             ELSE [present |-> FALSE, value |-> JNull]

\* The nodes of the document below the root, in document order
Nodes == Descendants(Root(document.parsed))

\* The loop of the highlight effect over the lines of the editor text, from
\* line i on (1-based, the code's i + 1). `s` holds the loop's variables:
\* segment is currentSegmentIndex, counter arrayIndexCounter, depth
\* objectDepth, target targetDepth, tracking trackingArrayDepth; done is set
\* by a break.
RECURSIVE ScanLines(_, _, _, _)
ScanLines(lines, i, segments, s) ==
    IF i > Len(lines) \/ s.done THEN s
    ELSE LET line == lines[i]
             kept == {k \in 1..Len(line) : line[k] \notin {" ", "\t", "\n", "\r"}}
             trimmed == IF kept = {} THEN <<>>
                        ELSE SubSeq(line,
                                    CHOOSE k \in kept : \A j \in kept : k <= j,
                                    CHOOSE k \in kept : \A j \in kept : k >= j)
             EndsWith(c) == trimmed # <<>> /\ trimmed[Len(trimmed)] = c
             Includes(text, word) == IndexOf(text, word, 1) # 0
             opens == EndsWith("{") \/ EndsWith("[")
             Wants(t, type) == /\ t.segment < Len(segments)
                               /\ segments[t.segment + 1].type = type
             Last(t) == t.segment + 1 = Len(segments)
             Opening(t) ==
                 IF ~opens THEN t
                 ELSE IF Wants(t, "index") /\ EndsWith("[") /\ t.tracking = -1
                 THEN [t EXCEPT !.counter = 0, !.tracking = t.depth,
                                !.depth = @ + 1]
                 ELSE IF /\ Wants(t, "index")
                         /\ t.tracking # -1
                         /\ t.depth = t.tracking + 1
                         /\ trimmed = <<"{">>
                 THEN IF t.counter # segments[t.segment + 1].value
                      THEN [t EXCEPT !.counter = @ + 1, !.depth = @ + 1]
                      ELSE IF Last(t)
                      THEN [t EXCEPT !.segment = @ + 1, !.tracking = -1,
                                     !.startLine = i, !.target = t.depth + 1,
                                     !.inTarget = TRUE, !.depth = @ + 1]
                      ELSE [t EXCEPT !.segment = @ + 1, !.tracking = -1,
                                     !.depth = @ + 1]
                 ELSE [t EXCEPT !.depth = @ + 1]
             Property(t) ==
                 IF /\ Wants(t, "property")
                    /\ Includes(line, Quote(segments[t.segment + 1].value))
                    /\ Includes(trimmed, <<":">>)
                 THEN IF opens
                      THEN [t EXCEPT !.startLine = i, !.target = t.depth + 1,
                                     !.inTarget = TRUE, !.segment = @ + 1,
                                     !.depth = @ + 1]
                      ELSE IF Last(t)
                      THEN [t EXCEPT !.segment = @ + 1, !.startLine = i,
                                     !.endLine = i, !.done = TRUE]
                      ELSE [t EXCEPT !.segment = @ + 1]
                 ELSE t
             Closing(t) ==
                 IF t.done \/ trimmed = <<>> \/ trimmed[1] \notin {"}", "]"}
                 THEN t
                 ELSE IF t.inTarget /\ t.depth = t.target
                 THEN [t EXCEPT !.endLine = i, !.done = TRUE]
                 ELSE [t EXCEPT !.depth = @ - 1,
                                !.tracking = IF @ # -1 /\ t.depth - 1 <= @
                                             THEN -1 ELSE @]
         IN  ScanLines(lines, i + 1, segments, Closing(Property(Opening(s))))

\* The highlight effect of the DocumentViewer for the editor text and the
\* highlight path: the line range it decorates (1-based, inclusive), or
\* startLine = -1 when it decorates nothing
HighlightRange(text, path) ==
    LET Found(s) ==
            [startLine |-> s.startLine,
             endLine |-> IF s.startLine # -1 /\ s.endLine = -1
                         THEN s.startLine ELSE s.endLine]
    IN  IF path = NoPath
        THEN [startLine |-> -1, endLine |-> -1]
        ELSE Found(ScanLines(Split(text, <<"\n">>), 1, pathSegments(path, 1),
                             [startLine |-> -1, endLine |-> -1, segment |-> 0,
                              counter |-> 0, depth |-> 0, target |-> 0,
                              tracking |-> -1, inTarget |-> FALSE,
                              done |-> FALSE]))

-----------------------------------------------------------------------------
(* Specification of addresses: tree clicks and query result clicks         *)

AllDescendants == <<"$", ".", ".", "*">>

\* The documents loaded: DocA, PriceList and
PathLoad ==
    LET \* An object with a key of digits, nested values, a key that extends
        \* another key and a key with a dot
        KeyedObject ==
            JObj(<< <<(<<"1">>), JNull>>,
                    <<(<<"a">>), JObj(<< <<(<<"b">>), JArr(<<JNum(10), JObj(<< <<(<<"c">>), JNum(1)>> >>)>>)>> >>)>>,
                    <<(<<"a", "b">>), JNum(2)>>,
                    <<(<<"a", ".", "b">>), JNum(3)>> >>)
        \* A list of eleven elements, the first an object with a nested list
        ElevenItems ==
            JArr([i \in 1..11 |->
                     IF i = 1
                     THEN JObj(<< <<(<<"n", "a", "m", "e">>), JArr(<<JStr(<<"x">>)>>)>> >>)
                     ELSE JNum(i)])
        \* Two elements whose property a holds different keys
        TwoShapes ==
            JArr(<<JObj(<< <<(<<"a">>), JObj(<< <<(<<"b">>), JNum(1)>> >>)>> >>),
                   JObj(<< <<(<<"a">>), JObj(<< <<(<<"c">>), JNum(1)>> >>)>> >>)>>)
    IN  /\ now = 1
        /\ \E d \in {DocA, KeyedObject, ElevenItems, PriceList, TwoShapes} :
               handleFileLoad(Minified(d))

\* onHighlight(path) of the tree editors and the search: setHighlightPath
onHighlight(path) ==
    /\ Mounted
    /\ highlightPath' = path
    /\ lastOp' = "onHighlight"
    /\ UNCHANGED <<document, versionHistory, currentVersionIndex, now,
                   viewerVars, queryVars>>

\* onResultClick(path) of the QueryTool: setHighlightPath
onResultClick(path) ==
    /\ Mounted
    /\ highlightPath' = path
    /\ lastOp' = "onResultClick"
    /\ UNCHANGED <<document, versionHistory, currentVersionIndex, now,
                   viewerVars, queryVars>>

\* A click on the path of a query result
ClickResult ==
    /\ queryResult.shown
    /\ queryResult.success
    /\ \E k \in 1..Len(queryResult.items) : onResultClick(queryResult.items[k].path)

\* handleDeleteItem(index) of the DataEditor over a root list, for the first
\* item: onUpdate(data.filter((_, i) => i !== index))
DeleteItem ==
    /\ now < MaxClock
    /\ document.parsed.type = "array"
    /\ document.parsed.items # <<>>
    /\ handleDocumentUpdate(JArr(Tail(document.parsed.items)))

NextPaths ==
    \/ PathLoad
    \* A click on a node of the tree editor, or the first hit of a search
    \/ \E k \in 1..Len(Nodes) : onHighlight(EditorPath(Nodes[k].segments))
    \/ ClickResult
    \/ query # AllDescendants /\ setQuery(AllDescendants)
    \/ executeQuery
    \/ DeleteItem

SpecPaths == Init /\ [][NextPaths]_vars


-----------------------------------------------------------------------------
(* Addresses: claims C13 - C16                                             *)

\* C13 (as claimed): for every match of `$..*` the converted path has one
\* segment per bracket token of the evaluator's path, an Index segment for an
\* array index and a Property segment for an object key, and resolving it
\* against the queried document gives the matched value, whatever the keys.
ConvertedPathResolves ==
    (lastOp = "executeQuery" /\ query = AllDescendants /\ queryResult.success) =>
        /\ Len(queryResult.items) = Len(Nodes)
        /\ \A k \in 1..Len(queryResult.items) :
               LET address == pathSegments(queryResult.items[k].path, 1)
               IN  /\ address = Nodes[k].segments
                   /\ Resolve(document.parsed, address) =
                          [present |-> TRUE, value |-> queryResult.items[k].value]

\* C14 (as claimed): the address the query tool reports for a node is the
\* address the tree editor and the search give the same node
\* (highlightedPath === currentPath), for root objects and root arrays.
QueryAddressIsEditorAddress ==
    (queryResult.shown /\ queryResult.success /\ query = AllDescendants) =>
        \A k \in 1..Len(queryResult.items) :
            isHighlighted(queryResult.items[k].path, EditorPath(Nodes[k].segments))

\* C15 (as claimed): the highlight parser reads the path text of every node
\* the editors address back as the segments of that node, whatever the
\* property names.
EditorPathRoundTrip ==
    lastOp = "onHighlight" =>
        \A n \in 1..Len(Nodes) :
            EditorPath(Nodes[n].segments) = highlightPath =>
                pathSegments(highlightPath, 1) = Nodes[n].segments

\* C16 (as claimed): with a node highlighted, a node is marked as parent of
\* the highlighted one exactly when its segments are a proper initial
\* subsequence of the highlighted node's segments.
ParentMarkIsProperPrefix ==
    lastOp = "onHighlight" =>
        \A h \in 1..Len(Nodes) :
            EditorPath(Nodes[h].segments) = highlightPath =>
                \A m \in 1..Len(Nodes) :
                    isParentOfHighlighted(highlightPath,
                                          EditorPath(Nodes[m].segments))
                    <=> /\ Len(Nodes[m].segments) < Len(Nodes[h].segments)
                        /\ Nodes[m].segments =
                               SubSeq(Nodes[h].segments, 1, Len(Nodes[m].segments))


-----------------------------------------------------------------------------
(* Specification of the analyzer over loaded lists                         *)

\* setShowAnalyzeModal(show) of the DocumentViewer: the AnalyzeView mounts
\* (its effect runs analyzeJson on the editor text) or unmounts
setShowAnalyzeModal(show) ==
    /\ Mounted
    /\ analysis.shown # show
    /\ analysis' = IF show THEN analyzeJson(rawJson, NoAnalysis) ELSE NoAnalysis
    /\ lastOp' = "setShowAnalyzeModal"
    /\ UNCHANGED <<appVars, rawJson, error, debounceTimer, isUserEditRef, now,
                   queryVars>>

Key(text, value) == <<text, value>>

\* A null property met before a list with a repeated id and an odd element,
\* and a null property after it
NullsAroundList ==
    JObj(<<Key(<<"x">>, JNull),
           Key(<<"l", "i", "s", "t">>,
               JArr(<<JObj(<<Key(<<"i", "d">>, JNum(1))>>),
                      JObj(<<Key(<<"i", "d">>, JNum(1))>>),
                      JObj(<<>>)>>)),
           Key(<<"y">>, JNull)>>)

AnalyzeLoad ==
    LET \* The elements of the analysed lists
        ListElements ==
            {JObj(<<Key(<<"i", "d">>, JNum(1))>>),
             JObj(<<Key(<<"i", "d">>, JNum(2))>>),
             JObj(<<Key(<<"i", "d">>, JNull)>>),
             JObj(<<Key(<<"i", "d">>, JNum(1)), Key(<<"_", "i", "d">>, JNum(7))>>),
             JObj(<<Key(<<"_", "i", "d">>, JNum(7)), Key(<<"i", "d">>, JNum(2))>>),
             JObj(<<Key(<<"_", "i", "d">>, JNum(7))>>),
             JObj(<<Key(<<"a">>, JNum(1)), Key(<<"b">>, JNum(2))>>),
             JObj(<<Key(<<"b">>, JNum(2)), Key(<<"a">>, JNum(1))>>),
             JObj(<<Key(<<"a", ",", "b">>, JNum(1))>>),
             JNull,
             JNum(5),
             JArr(<<>>)}
        \* Five elements with the same id: four repeats
        FiveSameIds == JArr([i \in 1..5 |-> JObj(<<Key(<<"i", "d">>, JStr(<<"x">>))>>)])
        \* Lists nested more than DeepNestingDepth deep
        In(value) == JArr(<<value>>)
        In4(value) == In(In(In(In(value))))
        Nested == In4(In4(In4(JArr(<<>>))))
        \* One key met more than RepeatedKeyCount times
        ManyKeys == JArr([i \in 1..(RepeatedKeyCount + 1) |-> JObj(<<Key(<<"k">>, JNull)>>)])
        \* Strings that are a list element and the root
        StringElement == JArr(<<JStr(<<"a", "b">>)>>)
        StringRoot == JStr(<<"a", "b", "c">>)
        AnalyzerDocuments ==
            {FiveSameIds, NullsAroundList, Nested, ManyKeys, StringElement,
             StringRoot}
            \cup {JArr(items) : items \in UNION {[1..n -> ListElements] : n \in 0..MaxItems}}
    IN  now = 1 /\ \E text \in {Minified(d) : d \in AnalyzerDocuments} :
                       handleFileLoad(text)

NextAnalyze ==
    \/ AnalyzeLoad
    \/ setShowAnalyzeModal(TRUE)
    \/ setShowAnalyzeModal(FALSE)

SpecAnalyze == Init /\ [][NextAnalyze]_vars


-----------------------------------------------------------------------------
(* Analyzer: claims C17 - C20                                              *)

\* C17 (as claimed): the analysis of a document that is a valid JSON value
\* ends with a result (statistics and issue list), never with the error.
AnalyzerNeverFails ==
    (analysis.shown /\ JSONparse(rawJson).ok) =>
        analysis.hasResult /\ analysis.error = NULL

\* C18: the issue list is the errors, then the warnings, then the infos, each
\* group in the order traverse discovered them, with the Repeated Key issues
\* discovered last.
IssuesSortedBySeverity ==
    (analysis.shown /\ analysis.hasResult /\ analysis.error = NULL) =>
        LET value == JSONparse(rawJson).value
            found == traverse(value, <<"$">>, 0)
            repeated == RepeatedKeyIssues(TraversedKeys(value))
            discovered == found \o repeated
            Of(severity) ==
                SelectSeq(discovered, LAMBDA issue : issue.severity = severity)
        IN  /\ analysis.issues = Of("error") \o Of("warning") \o Of("info")
            /\ \A i \in 1..Len(found) : found[i].type # "Repeated Key"
            /\ \A i \in 1..Len(repeated) : repeated[i].type = "Repeated Key"

\* C18 witness: an info was discovered before an error and a warning, and
\* another info after them
InfoDiscoveredBeforeError ==
    /\ analysis.shown
    /\ analysis.hasResult
    /\ document.parsed = NullsAroundList
    /\ Len(analysis.issues) = 5
    /\ analysis.issues[1].severity = "error"
    /\ analysis.issues[2].severity = "warning"
    /\ analysis.issues[3].path = <<"$", ".", "x">>
    /\ analysis.issues[5].path = <<"$", ".", "y">>

\* C19 (as claimed): for a root list whose first element is an object, with
\* `key` the first of id, _id, ID, uuid, key that the first element has, the
\* analysis reports one Duplicate IDs error if some non-null value of `key`
\* occurs again at a later element, naming key and the first three repeats
\* `value (index i)`, with `...` when there are more; otherwise none.
DuplicateIdsReported ==
    LET list == document.parsed
        first == list.items[1]
        priority == <<(<<"i", "d">>), (<<"_", "i", "d">>), (<<"I", "D">>),
                      (<<"u", "u", "i", "d">>), (<<"k", "e", "y">>)>>
        has == {p \in 1..5 : HasKey(first, priority[p])}
        key == priority[CHOOSE p \in has : \A q \in has : p <= q]
        ValueAt(i) ==
            IF list.items[i].type = "object" /\ HasKey(list.items[i], key)
            THEN GetProperty(list.items[i], key) ELSE JNull
        Repeats(i) == /\ ValueAt(i).type \in {"number", "string", "boolean"}
                      /\ \E e \in 1..(i - 1) : ValueAt(e) = ValueAt(i)
        repeats == SelectSeq([i \in 1..Len(list.items) |-> i], Repeats)
        Named(i) == TemplateText(ValueAt(i)) \o <<" (index ">>
                    \o NatToText(i - 1) \o <<")">>
        named == [k \in 1..Min(3, Len(repeats)) |-> Named(repeats[k])]
        RootDuplicateIssues ==
            SelectSeq(analysis.issues,
                      LAMBDA issue :
                          /\ issue.type = "Duplicate IDs"
                          /\ SubSeq(issue.path, 1, 5) = <<"$", "[", "*", "]", ".">>)
    IN  ( /\ analysis.shown
          /\ list.type = "array"
          /\ list.items # <<>>
          /\ first.type = "object" ) =>
            IF has # {} /\ repeats # <<>>
            THEN /\ Len(RootDuplicateIssues) = 1
                 /\ RootDuplicateIssues[1].severity = "error"
                 /\ RootDuplicateIssues[1].path = <<"$", "[", "*", "]", ".">> \o key
                 /\ RootDuplicateIssues[1].details =
                        <<"Duplicates: ">> \o Join(named, <<", ">>)
                        \o (IF Len(repeats) > 3 THEN <<"...">> ELSE <<>>)
            ELSE RootDuplicateIssues = <<>>

\* C20 (as claimed): for a root list whose first element is an object, the
\* analysis reports an Inconsistent Structure warning at `$[i]` exactly for
\* the elements i that are objects whose key set differs from the key set of
\* element 0, one warning per element.
InconsistentStructureReported ==
    LET list == document.parsed
        KeySet(object) == {object.props[i][1] : i \in 1..Len(object.props)}
        WarningsAt(i) ==
            {k \in 1..Len(analysis.issues) :
                /\ analysis.issues[k].type = "Inconsistent Structure"
                /\ analysis.issues[k].severity = "warning"
                /\ analysis.issues[k].path =
                       <<"$", "[">> \o NatToText(i - 1) \o <<"]">>}
    IN  ( /\ analysis.shown
          /\ list.type = "array"
          /\ list.items # <<>>
          /\ list.items[1].type = "object" ) =>
            \A i \in 1..Len(list.items) :
                Cardinality(WarningsAt(i)) =
                    IF /\ list.items[i].type = "object"
                       /\ KeySet(list.items[i]) # KeySet(list.items[1])
                    THEN 1 ELSE 0

-----------------------------------------------------------------------------
(* Analyzer statistics: claim C21                                          *)

\* Every node of a value with its depth, the value itself first
RECURSIVE NodesWithDepth(_, _)
NodesWithDepth(value, depth) ==
    <<[node |-> value, depth |-> depth]>>
    \o (IF value.type = "array"
        THEN Flatten([i \in 1..Len(value.items) |->
                         NodesWithDepth(value.items[i], depth + 1)])
        ELSE IF value.type = "object"
        THEN Flatten([i \in 1..Len(value.props) |->
                         NodesWithDepth(value.props[i][2], depth + 1)])
        ELSE <<>>)

\* C21 (as claimed): the statistics of an analysis describe the whole
\* document: totalKeys is the sum of the key counts of all objects,
\* totalArrays and totalObjects count every array and object, maxDepth is
\* the greatest depth of a node, largestArray the greatest array length and
\* largestString the greatest length of a string value anywhere (property,
\* array element or root); every string longer than the threshold has a
\* Large String warning.
StatsDescribeWholeDocument ==
    (analysis.shown /\ analysis.hasResult /\ analysis.error = NULL) =>
        LET all == NodesWithDepth(JSONparse(rawJson).value, 0)
            Of(type) == SelectSeq(all, LAMBDA n : n.node.type = type)
            Greatest(numbers) ==
                CHOOSE m \in numbers \cup {0} : \A n \in numbers \cup {0} : n <= m
            objects == Of("object")
            arrays == Of("array")
            strings == Of("string")
            RECURSIVE Sum(_)
            Sum(counts) == IF counts = <<>> THEN 0
                           ELSE Head(counts) + Sum(Tail(counts))
            long == SelectSeq(strings,
                              LAMBDA n : Len(n.node.s) > LargeStringLength)
            warnings == SelectSeq(analysis.issues,
                                  LAMBDA issue : issue.type = "Large String")
        IN  /\ analysis.stats.totalKeys =
                   Sum([i \in 1..Len(objects) |-> Len(objects[i].node.props)])
            /\ analysis.stats.totalArrays = Len(arrays)
            /\ analysis.stats.totalObjects = Len(objects)
            /\ analysis.stats.maxDepth =
                   Greatest({all[i].depth : i \in 1..Len(all)})
            /\ analysis.stats.largestArray =
                   Greatest({Len(arrays[i].node.items) : i \in 1..Len(arrays)})
            /\ analysis.stats.largestString =
                   Greatest({Len(strings[i].node.s) : i \in 1..Len(strings)})
            /\ Len(warnings) = Len(long)
            /\ \A i \in 1..Len(warnings) : warnings[i].severity = "warning"

-----------------------------------------------------------------------------
(* Line ranges of the highlight: claims C22 - C23                          *)

\* The number of lines of a value in the 2-space pretty-printed text
RECURSIVE LineCount(_)
LineCount(value) ==
    LET RECURSIVE Sum(_)
        Sum(counts) == IF counts = <<>> THEN 0
                       ELSE Head(counts) + Sum(Tail(counts))
    IN  IF value.type = "array" /\ value.items # <<>>
        THEN 2 + Sum([i \in 1..Len(value.items) |-> LineCount(value.items[i])])
        ELSE IF value.type = "object" /\ value.props # <<>>
        THEN 2 + Sum([i \in 1..Len(value.props) |-> LineCount(value.props[i][2])])
        ELSE 1

\* The line on which the node at `segments` of `value` starts, when `value`
\* starts on `line`
RECURSIVE StartLineOf(_, _, _)
StartLineOf(value, segments, line) ==
    IF segments = <<>> THEN line
    ELSE LET children == IF value.type = "array" THEN value.items
                         ELSE [i \in 1..Len(value.props) |-> value.props[i][2]]
             at == IF value.type = "array" THEN segments[1].value + 1
                   ELSE CHOOSE i \in 1..Len(value.props) :
                            /\ value.props[i][1] = segments[1].value
                            /\ \A j \in (i + 1)..Len(value.props) :
                                   value.props[j][1] # segments[1].value
             RECURSIVE Before(_)
             Before(k) == IF k = 0 THEN 0
                          ELSE LineCount(children[k]) + Before(k - 1)
         IN  StartLineOf(children[at], Tail(segments), line + 1 + Before(at - 1))

\* C22 (as claimed): for a highlighted address that resolves to an object
\* property or to an object element of an array, the scan over the
\* pretty-printed text returns the 1-based inclusive line range of exactly
\* that node: its single line, or from its opening to its closing line.
ScanReturnsRangeOfNode ==
    (lastOp = "onHighlight" /\ rawJson = formatJson(document.parsed)) =>
        \A n \in 1..Len(Nodes) :
            LET address == Nodes[n].segments
                last == address[Len(address)]
                start == StartLineOf(document.parsed, address, 1)
            IN  ( /\ EditorPath(address) = highlightPath
                  /\ pathSegments(highlightPath, 1) = address
                  /\ \/ last.type = "property"
                     \/ Nodes[n].value.type = "object" ) =>
                    HighlightRange(rawJson, highlightPath) =
                        [startLine |-> start,
                         endLine |-> start + LineCount(Nodes[n].value) - 1]

\* C23 (as claimed): when the highlighted address is empty or cannot be
\* matched completely against the document shown (a segment names an absent
\* key or an index out of range), the scan returns no range: never the range
\* of a partially matched ancestor.
UnmatchedAddressGivesNoRange ==
    ( /\ Mounted
      /\ rawJson = formatJson(document.parsed)
      /\ \/ highlightPath = NoPath
         \/ ~Resolve(document.parsed, pathSegments(highlightPath, 1)).present ) =>
        HighlightRange(rawJson, highlightPath).startLine = -1

-----------------------------------------------------------------------------
(* Schema inference and default objects                                    *)

MaxProperties == 2    \* SpecSchema: properties of the sample objects

\* PropertySchema; arrayItemType is "undefined" and objectSchema not present
\* when the field is not set
PropertySchema(name, type, arrayItemType, objectSchema) ==
    [name |-> name, type |-> type, required |-> TRUE,
     arrayItemType |-> arrayItemType, objectSchema |-> objectSchema]

\* inferObjectSchema that reads the last element of an array property
RECURSIVE inferObjectSchemaFromLast(_)
inferObjectSchemaFromLast(obj) ==
    LET Of(value) ==
            LET sampled == value.type = "array" /\ value.items # <<>>
                element == value.items[Len(value.items)]
            IN  PropertySchema(
                    <<>>, value.type,
                    IF sampled THEN element.type ELSE "undefined",
                    IF sampled /\ element.type = "object"
                    THEN [present |-> TRUE,
                          properties |-> inferObjectSchemaFromLast(element).properties]
                    ELSE IF value.type = "object"
                    THEN [present |-> TRUE,
                          properties |-> inferObjectSchemaFromLast(value).properties]
                    ELSE [present |-> FALSE, properties |-> <<>>])
    IN  [properties |->
            [i \in 1..Len(obj.props) |->
                [Of(obj.props[i][2]) EXCEPT !.name = obj.props[i][1]]]]

\* inferObjectSchema(obj): inferType(value) is the type of the value
RECURSIVE inferObjectSchema(_)
inferObjectSchema(obj) ==
    LET Of(value) ==
            LET sampled == value.type = "array" /\ value.items # <<>>
                element == value.items[1]
            IN  PropertySchema(
                    <<>>, value.type,
                    IF sampled THEN element.type ELSE "undefined",
                    IF sampled /\ element.type = "object"
                    THEN [present |-> TRUE,
                          properties |-> inferObjectSchema(element).properties]
                    ELSE IF value.type = "object"
                    THEN [present |-> TRUE,
                          properties |-> inferObjectSchema(value).properties]
                    ELSE [present |-> FALSE, properties |-> <<>>])
    IN  [properties |->
            [i \in 1..Len(obj.props) |->
                [Of(obj.props[i][2]) EXCEPT !.name = obj.props[i][1]]]]

getDefaultValue(type) ==
    CASE type = "string" -> JStr(<<>>)
      [] type = "number" -> JNum(0)
      [] type = "boolean" -> JBool(FALSE)
      [] type = "null" -> JNull
      [] type = "array" -> JArr(<<>>)
      [] type = "object" -> JObj(<<>>)
      [] OTHER -> JNull

\* obj[name] = value on an object created by `{}`, names not repeated: the
\* name __proto__ reaches the setter of Object.prototype and leaves the own
\* properties as they are
SetProperty(obj, name, value) ==
    IF name = <<"_", "_", "p", "r", "o", "t", "o", "_", "_">> THEN obj
    ELSE JObj(Append(obj.props, <<name, value>>))

RECURSIVE createDefaultObject(_)
createDefaultObject(schema) ==
    IF schema.properties = <<>> THEN JObj(<<>>)
    ELSE LET n == Len(schema.properties)
             prop == schema.properties[n]
         IN  SetProperty(
                 createDefaultObject([properties |-> SubSeq(schema.properties, 1, n - 1)]),
                 prop.name, getDefaultValue(prop.type))

RECURSIVE createDefaultObjectWithNesting(_)
createDefaultObjectWithNesting(schema) ==
    IF schema.properties = <<>> THEN JObj(<<>>)
    ELSE LET n == Len(schema.properties)
             prop == schema.properties[n]
         IN  SetProperty(
                 createDefaultObjectWithNesting(
                     [properties |-> SubSeq(schema.properties, 1, n - 1)]),
                 prop.name,
                 IF prop.type = "object" /\ prop.objectSchema.present
                 THEN createDefaultObjectWithNesting(
                          [properties |-> prop.objectSchema.properties])
                 ELSE IF prop.type = "array" THEN JArr(<<>>)
                 ELSE getDefaultValue(prop.type))

\* onUpdate(newData) of the root DataEditor, which is handleDocumentUpdate,
\* called by the handler `op`
onUpdate(newData, op) ==
    /\ Mounted
    /\ DocumentUpdate(newData, versionHistory, currentVersionIndex)
    /\ ViewerRender(document.parsed, newData,
                    isUserEditRef, rawJson, error, debounceTimer)
    /\ QueryToolRender(document.parsed, newData)
    /\ lastOp' = op
    /\ UNCHANGED highlightPath

\* The add form of the root DataEditor: handleCreateDefaultItem puts
\* createDefaultObject(schema) into the form, with schema inferred from item
\* 0, and handleSaveNewItem appends the item of the form, left as created
handleSaveNewItem ==
    /\ document.parsed.type = "array"
    /\ document.parsed.items # <<>>
    /\ document.parsed.items[1].type = "object"
    /\ onUpdate(JArr(Append(document.parsed.items,
                            createDefaultObject(
                                inferObjectSchema(document.parsed.items[1])))),
                "handleSaveNewItem")

\* handleCreateDefaultObject(key) of the ObjectEditor of item `index` of the
\* root list, offered for a property that is null: the new object follows
\* the first sibling item that holds an object under the key, and goes up
\* through handleUpdateItem(index, updatedItem)
handleCreateDefaultObject(index, key) ==
    LET items == document.parsed.items
        data == items[index + 1]
        IsSample(i) == /\ i # index + 1
                       /\ items[i].type = "object"
                       /\ HasKey(items[i], key)
                       /\ GetProperty(items[i], key).type = "object"
        siblings == {i \in 1..Len(items) : IsSample(i)}
        newObject ==
            IF siblings = {} THEN JObj(<<>>)
            ELSE createDefaultObjectWithNesting(
                     inferObjectSchema(
                         GetProperty(items[CHOOSE i \in siblings :
                                               \A j \in siblings : i <= j], key)))
        updatedItem ==
            JObj([k \in 1..Len(data.props) |->
                     IF data.props[k][1] = key THEN <<key, newObject>>
                     ELSE data.props[k]])
    IN  /\ data.type = "object"
        /\ HasKey(data, key)
        /\ GetProperty(data, key).type = "null"
        /\ onUpdate(JArr([i \in 1..Len(items) |->
                             IF i = index + 1 THEN updatedItem ELSE items[i]]),
                    "handleCreateDefaultObject")

-----------------------------------------------------------------------------
(* Specification of the schema-driven editors over sample objects          *)

SchemaLoad ==
    LET \* The values of the properties of a sample
        Values ==
            {JNull, JNum(1), JStr(<<"s">>), JBool(TRUE), JArr(<<>>),
             JArr(<<JNum(1)>>),
             JArr(<<JObj(<<Key(<<"x">>, JNum(1))>>),
                    JObj(<<Key(<<"y">>, JStr(<<"s">>))>>)>>),
             JObj(<<>>),
             JObj(<<Key(<<"n">>, JObj(<<Key(<<"m">>, JNull)>>))>>)}
        Names == {<<"a">>, <<"b">>, <<"_", "_", "p", "r", "o", "t", "o", "_", "_">>}
        Samples ==
            {JObj(props) :
                props \in {p \in UNION {[1..n -> Names \X Values] :
                                           n \in 0..MaxProperties} :
                              \A i, j \in 1..Len(p) : i # j => p[i][1] # p[j][1]}}
        \* A list of one sample, and a list whose item 0 holds the sample
        \* under a key that is null in item 1
        Documents ==
            {JArr(<<sample>>) : sample \in Samples}
            \cup {JArr(<<JObj(<<Key(<<"k">>, sample)>>),
                         JObj(<<Key(<<"k">>, JNull)>>)>>) : sample \in Samples}
    IN  now = 1 /\ \E d \in Documents : handleFileLoad(Minified(d))

NextSchema ==
    \/ SchemaLoad
    \/ now < MaxClock /\ handleSaveNewItem
    \/ /\ now < MaxClock
       /\ document.parsed.type = "array"
       /\ \E index \in 0..(Len(document.parsed.items) - 1) :
              \E key \in {<<"k">>, <<"a">>} : handleCreateDefaultObject(index, key)

SpecSchema == Init /\ [][NextSchema]_vars

-----------------------------------------------------------------------------
(* Schema inference and defaults: claims C24 - C25                         *)

\* C24: the schema the DataEditor infers from item 0 of a root list has one
\* property schema per key of the item, in key order, each required and with
\* the type tag of its value; an array property has the type of its element
\* 0 as item type, none when it is empty; a nested schema is present exactly
\* for an object and for an array whose element 0 is an object, and is the
\* schema inferred from that object alone.
SchemaFollowsFirstElement ==
    ( /\ Mounted
      /\ document.parsed.type = "array"
      /\ document.parsed.items # <<>>
      /\ document.parsed.items[1].type = "object" ) =>
        LET sample == document.parsed.items[1]
            schema == inferObjectSchema(sample).properties
            NamesAndTypes(properties, object) ==
                /\ Len(properties) = Len(object.props)
                /\ \A i \in 1..Len(properties) :
                       /\ properties[i].name = object.props[i][1]
                       /\ properties[i].type = object.props[i][2].type
                       /\ properties[i].required
        IN  /\ NamesAndTypes(schema, sample)
            /\ \A i \in 1..Len(schema) :
                   LET value == sample.props[i][2]
                       sampled == value.type = "array" /\ value.items # <<>>
                       nested == IF sampled THEN value.items[1] ELSE value
                   IN  /\ schema[i].arrayItemType =
                              IF sampled THEN value.items[1].type ELSE "undefined"
                       /\ schema[i].objectSchema.present <=> nested.type = "object"
                       /\ schema[i].objectSchema.present =>
                              /\ NamesAndTypes(schema[i].objectSchema.properties,
                                               nested)
                              /\ schema[i].objectSchema.properties =
                                     inferObjectSchema(nested).properties

\* C24 witness: the sample has a list whose element 0 is an object with the
\* key x and whose element 1 is an object with the key y, and the nested
\* schema names x alone
NestedSchemaFromElementZero ==
    /\ lastOp = "load"
    /\ document.parsed.type = "array"
    /\ Len(document.parsed.items) = 1
    /\ document.parsed.items[1].type = "object"
    /\ LET sample == document.parsed.items[1]
           schema == inferObjectSchema(sample).properties
       IN  /\ Len(schema) = 2
           /\ sample.props[1][2].type = "array"
           /\ Len(sample.props[1][2].items) = 2
           /\ sample.props[1][2].items[2] = JObj(<<Key(<<"y">>, JStr(<<"s">>))>>)
           /\ schema[1].arrayItemType = "object"
           /\ schema[1].objectSchema.present
           /\ Len(schema[1].objectSchema.properties) = 1
           /\ schema[1].objectSchema.properties[1].name = <<"x">>
           /\ schema[2].type = "array"
           /\ schema[2].arrayItemType = "undefined"
           /\ ~schema[2].objectSchema.present

\* The names and type tags of a schema, and of its nested object schemas
RECURSIVE SameTags(_, _)
SameTags(left, right) ==
    /\ Len(left) = Len(right)
    /\ \A i \in 1..Len(left) :
           /\ left[i].name = right[i].name
           /\ left[i].type = right[i].type
           /\ (left[i].type = "object" /\ left[i].objectSchema.present) =>
                  /\ right[i].objectSchema.present
                  /\ SameTags(left[i].objectSchema.properties,
                              right[i].objectSchema.properties)

\* C25 (as claimed): the schema inferred from a skeleton has the names, in
\* the same order, and the type tags of the schema the skeleton was made
\* from: at the top level for the flat skeleton the add form appends, and in
\* every nested object schema for the nested skeleton put under a key.
SkeletonKeepsSchema ==
    LET items == document.parsed.items
        Tags(object) ==
            [i \in 1..Len(inferObjectSchema(object).properties) |->
                <<inferObjectSchema(object).properties[i].name,
                  inferObjectSchema(object).properties[i].type>>]
    IN  /\ lastOp = "handleSaveNewItem" =>
               Tags(items[Len(items)]) = Tags(items[1])
        /\ ( /\ lastOp = "handleCreateDefaultObject"
             /\ Len(items) >= 2
             /\ HasKey(items[1], <<"k">>)
             /\ GetProperty(items[1], <<"k">>).type = "object" ) =>
               SameTags(inferObjectSchema(GetProperty(items[1], <<"k">>)).properties,
                        inferObjectSchema(GetProperty(items[2], <<"k">>)).properties)

-----------------------------------------------------------------------------
(* The Format dialog                                                       *)

\* applyFormatting(data) for the format types minify, compact and pretty,
\* applySpacing(data) for the spacing types 2-space, 4-space and tab
applyFormatting(type, data) ==
    Stringify(data,
              CASE type \in {"minify", "compact"} -> <<>>
                [] type = "4-space" -> <<" ", " ", " ", " ">>
                [] type = "tab" -> <<"\t">>
                [] OTHER -> TwoSpaces,
              <<>>)

\* handleApply of the FormatView with the tab and the type chosen: onApply
\* of the DocumentViewer gets the preview of the editor text, sets it as
\* the text and hands its parse to onUpdate; the App renders the viewer
\* with the new data
onApply(type) ==
    LET Applied(r, formattedJson) ==
            IF r.ok
            THEN /\ DocumentUpdate(r.value, versionHistory, currentVersionIndex)
                 /\ ViewerRender(document.parsed, r.value, isUserEditRef,
                                 formattedJson, error, debounceTimer)
                 /\ QueryToolRender(document.parsed, r.value)
            ELSE /\ rawJson' = formattedJson
                 /\ error' = "Invalid JSON after formatting"
                 /\ analysis' = AnalyzeViewRender(rawJson, formattedJson)
                 /\ UNCHANGED <<document, versionHistory, currentVersionIndex,
                                now, debounceTimer, isUserEditRef, queryVars>>
        Preview(r) ==
            Applied(r, IF r.ok THEN applyFormatting(type, r.value)
                       ELSE <<"Invalid JSON">>)
    IN  /\ Mounted
        /\ Preview(JSONparse(rawJson))
        /\ lastOp' = type
        /\ UNCHANGED highlightPath

NextFormat ==
    \/ FileLoad
    \/ Keystroke
    \/ TimerFires
    \/ now < MaxClock
       /\ \E type \in {"minify", "compact", "pretty", "2-space", "4-space", "tab"} :
              onApply(type)

SpecFormat == Init /\ [][NextFormat]_vars

-----------------------------------------------------------------------------
(* The Format dialog: claim C26                                            *)

\* C26 (as claimed): after a format of the Format dialog is applied to an
\* editor text that is valid JSON, the editor shows the formatted text the
\* dialog produced and the document is the parse of that text.
FormattedTextIsShown ==
    [][(lastOp' \in {"minify", "compact", "pretty", "2-space", "4-space", "tab"}
        /\ JSONparse(rawJson).ok) =>
           /\ rawJson' = applyFormatting(lastOp', JSONparse(rawJson).value)
           /\ JSONparse(rawJson').ok
           /\ document'.parsed = JSONparse(rawJson').value]_vars

-----------------------------------------------------------------------------
(* Editor text and document at rest: claim C27                             *)

\* C27 (as claimed): in every reachable state where no debounce timer is
\* pending and the editor text is valid JSON, the editor text parses to the
\* current document, whatever the interleaving of keystrokes, timer expiry,
\* undo, redo and structured edits.
QuiescentTextIsDocument ==
    (~debounceTimer.pending /\ JSONparse(rawJson).ok) =>
        JSONparse(rawJson).value = document.parsed

-----------------------------------------------------------------------------
(* Session persistence: the save effect and the restore prompt             *)

\* The save effect storing the cursor of the full history with the reduced
\* history
savedSessionKeepsCursor(kind) ==
    [document |-> document,
     versionHistory |->
         CASE kind = "half" ->
                  Slice(versionHistory,
                        Max(0, Len(versionHistory) - MAX_HISTORY_LENGTH \div 2),
                        Len(versionHistory))
           [] kind = "ten" ->
                  Slice(versionHistory, Max(0, Len(versionHistory) - 10),
                        Len(versionHistory))
           [] OTHER -> versionHistory,
     currentVersionIndex |-> currentVersionIndex]

\* The session the save effect leaves in localStorage for the current
\* state: the full one, the one written when the serialised session is over
\* 4 MB ("half": the last MAX_HISTORY_LENGTH / 2 entries), or the one
\* written after a QuotaExceededError ("ten": the last 10 entries). The
\* size of the serialised session and the quota are inputs.
savedSession(kind) ==
    LET reducedHistory ==
            CASE kind = "half" ->
                     Slice(versionHistory,
                           Max(0, Len(versionHistory) - MAX_HISTORY_LENGTH \div 2),
                           Len(versionHistory))
              [] kind = "ten" ->
                     Slice(versionHistory, Max(0, Len(versionHistory) - 10),
                           Len(versionHistory))
              [] OTHER -> versionHistory
    IN  [document |-> document,
         versionHistory |-> reducedHistory,
         currentVersionIndex |->
             IF kind = "full" THEN currentVersionIndex
             ELSE Min(currentVersionIndex, Len(reducedHistory) - 1)]

\* The page is loaded again with `session` in localStorage and the user
\* answers the restore prompt with "Restore": handleRestoreSession on the
\* fresh App, whose viewer and query tool mount with the restored document.
handleRestoreSession(session) ==
    LET history == session.versionHistory
        originalIndex == session.currentVersionIndex
        adjustedIndex ==
            IF Len(history) > MAX_HISTORY_LENGTH
            THEN Max(0, originalIndex - (Len(history) - MAX_HISTORY_LENGTH))
            ELSE originalIndex
    IN  /\ Truthy(session.document.parsed)
        /\ Len(session.versionHistory) > 0
        /\ document' = session.document
        /\ versionHistory' = trimmedHistory(history)
        /\ currentVersionIndex' = adjustedIndex
        /\ highlightPath' = NoPath
        /\ ViewerRender(JNull, session.document.parsed,
                        FALSE, <<>>, NULL, NoTimer)
        /\ QueryToolRender(JNull, session.document.parsed)
        /\ lastOp' = "handleRestoreSession"
        /\ UNCHANGED now

\* The long editing session with a file that does not parse and, once more
\* than LongRun snapshots were taken, "New File" and page reloads that
\* restore the session saved last
NextSession ==
    \/ NextLong
    \/ now - 1 > LongRun /\ handleReset
    \/ handleFileLoad(InvalidText)
    \/ /\ now - 1 > LongRun
       /\ Mounted
       /\ Len(versionHistory) > 0
       /\ \E kind \in {"full", "half", "ten"} :
              handleRestoreSession(savedSession(kind))

SpecSession == Init /\ [][NextSession]_vars

-----------------------------------------------------------------------------
(* Session persistence: claim C28                                          *)

\* C28 (as claimed): whenever a session the save effect wrote (the full
\* one, or one with the history cut to its last 25 or last 10 entries) is
\* restored, the restored cursor is a valid index of the restored history
\* and the entry at the cursor has the content of the restored document.raw,
\* wherever the cursor stood when the session was saved.
RestoredCursorShowsDocument ==
    lastOp = "handleRestoreSession" =>
        /\ currentVersionIndex \in 0..(Len(versionHistory) - 1)
        /\ versionHistory[currentVersionIndex + 1].content = document.raw

-----------------------------------------------------------------------------
(* The cursor and the history: claims C29 and C30                          *)

\* C29: in every state reached by file load, reset, edit, undo, redo and
\* session restore the cursor satisfies
\* -1 <= currentVersionIndex <= versionHistory.length - 1, and it is -1 only
\* while the history is empty.
CursorWithinHistory ==
    /\ currentVersionIndex \in -1..(Len(versionHistory) - 1)
    /\ currentVersionIndex = -1 => versionHistory = <<>>

\* A session with the history cut to 10 entries was restored and undo went
\* back to its first entry
RestoredHistoryUndoneToFirst ==
    /\ lastOp = "undo"
    /\ Len(versionHistory) = 10
    /\ currentVersionIndex = 0

\* C30: a file load whose text parses replaces whatever history existed
\* with exactly one entry (content the loaded text, label "File loaded")
\* and sets the cursor to 0; a load whose text does not parse leaves the
\* history and the cursor unchanged and leaves the document invalid, with
\* parsed = null and a non-empty error message.
FileLoadContract ==
    [][lastOp' = "load" =>
         IF JSONparse(document'.raw).ok
         THEN /\ Len(versionHistory') = 1
              /\ versionHistory'[1].content = document'.raw
              /\ versionHistory'[1].label = "File loaded"
              /\ currentVersionIndex' = 0
         ELSE /\ versionHistory' = versionHistory
              /\ currentVersionIndex' = currentVersionIndex
              /\ ~document'.isValid
              /\ document'.parsed = JNull
              /\ document'.error \notin {NULL, ""}]_vars

\* A file was loaded while the history of an earlier file was still there
LoadOverEarlierHistory ==
    /\ lastOp = "load"
    /\ document.isValid
    /\ Len(versionHistory) = 1
    /\ versionHistory[1].timestamp > 1

====
